---- MODULE Spec2Model ----
(***************************************************************************)
(* Front end of the venom compiler: the layout-sensitive lexer             *)
(* (src/src/lexer.c) and the recursive-descent parser (src/src/ast.c),     *)
(* driven as in tests/test_symtable.c: a NUL-terminated source buffer is   *)
(* lexed into a token vector, and the token vector is parsed into an AST.  *)
(*                                                                         *)
(* The lexer is modelled one scan-loop iteration per step; the parser is a *)
(* family of operators, one per production, that thread the VParser state  *)
(* (cursor, error latch) exactly as the C functions do.                    *)
(***************************************************************************)
EXTENDS Integers, Sequences, FiniteSets, Bags, TLC

VARIABLES
    buffer,        \* char* buffer: the source text, a sequence of characters (NUL-terminated)
    s,             \* char* s: 1-based read position in buffer
    position,      \* uint32_t position
    line,          \* uint32_t line
    indent_stack,  \* indent_stack[0 .. indent_stack_ptr-1]
    tokens,        \* Vector* tokens
    pc,            \* where the driver is: "lexing", "lexed", "lex_error", "parsed", "crashed",
                   \* "destroyed", "exited"
    ast,           \* VAST: [root, error]
    ret,           \* return value of v_ast_from_tokens
    parser,        \* the VParser at the return of v_ast_from_tokens
    live,          \* the heap blocks of the parse that are allocated, a bag of kinds
    symtable       \* the VSymTable of main: "unset", "new" or "destroyed"

vars == <<buffer, s, position, line, indent_stack, tokens, pc, ast, ret, parser, live, symtable>>

lexvars == <<s, position, line, indent_stack, tokens>>

\* VTokenKind (src/include/venom/lexer.h:24-33)
\* @src src/include/venom/lexer.h:24-24 VTokenKind
VTokenKind_Identifier == 0
\* @src src/include/venom/lexer.h:25-25 VTokenKind
VTokenKind_Keyword == 1
\* @src src/include/venom/lexer.h:26-26 VTokenKind
VTokenKind_Literal == 2
\* @src src/include/venom/lexer.h:27-27 VTokenKind
VTokenKind_Operator == 3
\* @src src/include/venom/lexer.h:28-28 VTokenKind
VTokenKind_Delimiter == 4
\* @src src/include/venom/lexer.h:29-29 VTokenKind
VTokenKind_Newline == 5
\* @src src/include/venom/lexer.h:30-30 VTokenKind
VTokenKind_Indent == 6
\* @src src/include/venom/lexer.h:31-31 VTokenKind
VTokenKind_Dedent == 7
\* @src src/include/venom/lexer.h:32-32 VTokenKind
VTokenKind_Unknown == 8
\* @src src/include/venom/lexer.h:33-33 VTokenKind
VTokenKind_EOF == 9

\* VKeyword (src/include/venom/lexer.h:40-75)
\* @src src/include/venom/lexer.h:40-40 VKeyword
VKeyword_False == 0
\* @src src/include/venom/lexer.h:41-41 VKeyword
VKeyword_Await == 1
\* @src src/include/venom/lexer.h:42-42 VKeyword
VKeyword_Else == 2
\* @src src/include/venom/lexer.h:43-43 VKeyword
VKeyword_Import == 3
\* @src src/include/venom/lexer.h:44-44 VKeyword
VKeyword_Pass == 4
\* @src src/include/venom/lexer.h:45-45 VKeyword
VKeyword_None == 5
\* @src src/include/venom/lexer.h:46-46 VKeyword
VKeyword_Break == 6
\* @src src/include/venom/lexer.h:47-47 VKeyword
VKeyword_Except == 7
\* @src src/include/venom/lexer.h:48-48 VKeyword
VKeyword_In == 8
\* @src src/include/venom/lexer.h:49-49 VKeyword
VKeyword_Raise == 9
\* @src src/include/venom/lexer.h:50-50 VKeyword
VKeyword_True == 10
\* @src src/include/venom/lexer.h:51-51 VKeyword
VKeyword_Class == 11
\* @src src/include/venom/lexer.h:52-52 VKeyword
VKeyword_Finally == 12
\* @src src/include/venom/lexer.h:53-53 VKeyword
VKeyword_Is == 13
\* @src src/include/venom/lexer.h:54-54 VKeyword
VKeyword_Return == 14
\* @src src/include/venom/lexer.h:55-55 VKeyword
VKeyword_And == 15
\* @src src/include/venom/lexer.h:56-56 VKeyword
VKeyword_Continue == 16
\* @src src/include/venom/lexer.h:57-57 VKeyword
VKeyword_For == 17
\* @src src/include/venom/lexer.h:58-58 VKeyword
VKeyword_Lambda == 18
\* @src src/include/venom/lexer.h:59-59 VKeyword
VKeyword_Try == 19
\* @src src/include/venom/lexer.h:60-60 VKeyword
VKeyword_As == 20
\* @src src/include/venom/lexer.h:61-61 VKeyword
VKeyword_Def == 21
\* @src src/include/venom/lexer.h:62-62 VKeyword
VKeyword_From == 22
\* @src src/include/venom/lexer.h:63-63 VKeyword
VKeyword_Nonlocal == 23
\* @src src/include/venom/lexer.h:64-64 VKeyword
VKeyword_While == 24
\* @src src/include/venom/lexer.h:65-65 VKeyword
VKeyword_Assert == 25
\* @src src/include/venom/lexer.h:66-66 VKeyword
VKeyword_Del == 26
\* @src src/include/venom/lexer.h:67-67 VKeyword
VKeyword_Global == 27
\* @src src/include/venom/lexer.h:68-68 VKeyword
VKeyword_Not == 28
\* @src src/include/venom/lexer.h:69-69 VKeyword
VKeyword_With == 29
\* @src src/include/venom/lexer.h:70-70 VKeyword
VKeyword_Async == 30
\* @src src/include/venom/lexer.h:71-71 VKeyword
VKeyword_Elif == 31
\* @src src/include/venom/lexer.h:72-72 VKeyword
VKeyword_If == 32
\* @src src/include/venom/lexer.h:73-73 VKeyword
VKeyword_Or == 33
\* @src src/include/venom/lexer.h:74-74 VKeyword
VKeyword_Yield == 34
\* @src src/include/venom/lexer.h:75-75 VKeyword
VKeyword_Unknown == 35

\* VDelimiter (src/include/venom/lexer.h:82-94)
\* @src src/include/venom/lexer.h:82-82 VDelimiter
VDelimiter_LParen == 0
\* @src src/include/venom/lexer.h:83-83 VDelimiter
VDelimiter_RParen == 1
\* @src src/include/venom/lexer.h:84-84 VDelimiter
VDelimiter_LBracket == 2
\* @src src/include/venom/lexer.h:85-85 VDelimiter
VDelimiter_RBracket == 3
\* @src src/include/venom/lexer.h:86-86 VDelimiter
VDelimiter_LBrace == 4
\* @src src/include/venom/lexer.h:87-87 VDelimiter
VDelimiter_RBrace == 5
\* @src src/include/venom/lexer.h:88-88 VDelimiter
VDelimiter_Comma == 6
\* @src src/include/venom/lexer.h:89-89 VDelimiter
VDelimiter_Colon == 7
\* @src src/include/venom/lexer.h:90-90 VDelimiter
VDelimiter_Dot == 8
\* @src src/include/venom/lexer.h:91-91 VDelimiter
VDelimiter_SemiColon == 9
\* @src src/include/venom/lexer.h:92-92 VDelimiter
VDelimiter_At == 10
\* @src src/include/venom/lexer.h:93-93 VDelimiter
VDelimiter_RightArrow == 11
\* @src src/include/venom/lexer.h:94-94 VDelimiter
VDelimiter_Unknown == 12

\* VOperator (src/include/venom/lexer.h:99-138)
\* @src src/include/venom/lexer.h:99-99 VOperator
VOperator_Addition == 0
\* @src src/include/venom/lexer.h:100-100 VOperator
VOperator_Subtraction == 1
\* @src src/include/venom/lexer.h:101-101 VOperator
VOperator_Multiplication == 2
\* @src src/include/venom/lexer.h:102-102 VOperator
VOperator_Division == 3
\* @src src/include/venom/lexer.h:103-103 VOperator
VOperator_Modulus == 4
\* @src src/include/venom/lexer.h:104-104 VOperator
VOperator_Exponentiation == 5
\* @src src/include/venom/lexer.h:105-105 VOperator
VOperator_FloorDivision == 6
\* @src src/include/venom/lexer.h:106-106 VOperator
VOperator_Assign == 7
\* @src src/include/venom/lexer.h:107-107 VOperator
VOperator_AdditionAssign == 8
\* @src src/include/venom/lexer.h:108-108 VOperator
VOperator_SubtractionAssign == 9
\* @src src/include/venom/lexer.h:109-109 VOperator
VOperator_MultiplicationAssign == 10
\* @src src/include/venom/lexer.h:110-110 VOperator
VOperator_DivisionAssign == 11
\* @src src/include/venom/lexer.h:111-111 VOperator
VOperator_ModulusAssign == 12
\* @src src/include/venom/lexer.h:112-112 VOperator
VOperator_FloorDivisionAssign == 13
\* @src src/include/venom/lexer.h:113-113 VOperator
VOperator_ExponentiationAssign == 14
\* @src src/include/venom/lexer.h:114-114 VOperator
VOperator_BitwiseAndAssign == 15
\* @src src/include/venom/lexer.h:115-115 VOperator
VOperator_BitwiseOrAssign == 16
\* @src src/include/venom/lexer.h:116-116 VOperator
VOperator_BitwiseXorAssign == 17
\* @src src/include/venom/lexer.h:117-117 VOperator
VOperator_BitwiseLShiftAssign == 18
\* @src src/include/venom/lexer.h:118-118 VOperator
VOperator_BitwiseRShiftAssign == 19
\* @src src/include/venom/lexer.h:119-119 VOperator
VOperator_BitwiseAnd == 20
\* @src src/include/venom/lexer.h:120-120 VOperator
VOperator_BitwiseOr == 21
\* @src src/include/venom/lexer.h:121-121 VOperator
VOperator_BitwiseXor == 22
\* @src src/include/venom/lexer.h:122-122 VOperator
VOperator_BitwiseNot == 23
\* @src src/include/venom/lexer.h:123-123 VOperator
VOperator_BitwiseLShift == 24
\* @src src/include/venom/lexer.h:124-124 VOperator
VOperator_BitwiseRShift == 25
\* @src src/include/venom/lexer.h:125-125 VOperator
VOperator_ComparatorEquals == 26
\* @src src/include/venom/lexer.h:126-126 VOperator
VOperator_ComparatorNotEquals == 27
\* @src src/include/venom/lexer.h:127-127 VOperator
VOperator_ComparatorGreaterThan == 28
\* @src src/include/venom/lexer.h:128-128 VOperator
VOperator_ComparatorLessThan == 29
\* @src src/include/venom/lexer.h:129-129 VOperator
VOperator_ComparatorGreaterEqualsThan == 30
\* @src src/include/venom/lexer.h:130-130 VOperator
VOperator_ComparatorLessEqualsThan == 31
\* @src src/include/venom/lexer.h:131-131 VOperator
VOperator_LogicalAnd == 32
\* @src src/include/venom/lexer.h:132-132 VOperator
VOperator_LogicalOr == 33
\* @src src/include/venom/lexer.h:133-133 VOperator
VOperator_LogicalNot == 34
\* @src src/include/venom/lexer.h:134-134 VOperator
VOperator_IdentityIs == 35
\* @src src/include/venom/lexer.h:135-135 VOperator
VOperator_IdentityIsNot == 36
\* @src src/include/venom/lexer.h:136-136 VOperator
VOperator_MembershipIn == 37
\* @src src/include/venom/lexer.h:137-137 VOperator
VOperator_MembershipNotIn == 38
\* @src src/include/venom/lexer.h:138-138 VOperator
VOperator_Unknown == 39

\* VLiteral (src/include/venom/lexer.h:145-151)
\* @src src/include/venom/lexer.h:145-145 VLiteral
VLiteral_String == 1
\* @src src/include/venom/lexer.h:146-146 VLiteral
VLiteral_UnicodeString == 2
\* @src src/include/venom/lexer.h:147-147 VLiteral
VLiteral_RawString == 3
\* @src src/include/venom/lexer.h:148-148 VLiteral
VLiteral_FormattedString == 4
\* @src src/include/venom/lexer.h:149-149 VLiteral
VLiteral_Bytes == 5
\* @src src/include/venom/lexer.h:150-150 VLiteral
VLiteral_Integer == 6
\* @src src/include/venom/lexer.h:151-151 VLiteral
VLiteral_Float == 7

\* VType (src/include/venom/type.h:18-30)
\* @src src/include/venom/type.h:18-18 VType
VType_Unknown == 0
\* @src src/include/venom/type.h:19-19 VType
VType_None == 1
\* @src src/include/venom/type.h:20-20 VType
VType_Int == 2
\* @src src/include/venom/type.h:21-21 VType
VType_Float == 3
\* @src src/include/venom/type.h:22-22 VType
VType_Bool == 4
\* @src src/include/venom/type.h:23-23 VType
VType_String == 5
\* @src src/include/venom/type.h:24-24 VType
VType_Bytes == 6
\* @src src/include/venom/type.h:25-25 VType
VType_List == 7
\* @src src/include/venom/type.h:26-26 VType
VType_Tuple == 8
\* @src src/include/venom/type.h:27-27 VType
VType_Dict == 9
\* @src src/include/venom/type.h:28-28 VType
VType_Set == 10
\* @src src/include/venom/type.h:29-29 VType
VType_UserClass == 11
\* @src src/include/venom/type.h:30-30 VType
VType_Object == 12

\* VASTNodeType (src/include/venom/ast.h:19-42)
\* @src src/include/venom/ast.h:19-19 VASTNodeType
VASTNodeType_VASTSource == 0
\* @src src/include/venom/ast.h:20-20 VASTNodeType
VASTNodeType_VASTImport == 1
\* @src src/include/venom/ast.h:21-21 VASTNodeType
VASTNodeType_VASTClass == 2
\* @src src/include/venom/ast.h:22-22 VASTNodeType
VASTNodeType_VASTFunction == 3
\* @src src/include/venom/ast.h:23-23 VASTNodeType
VASTNodeType_VASTBody == 4
\* @src src/include/venom/ast.h:24-24 VASTNodeType
VASTNodeType_VASTFor == 5
\* @src src/include/venom/ast.h:25-25 VASTNodeType
VASTNodeType_VASTIf == 6
\* @src src/include/venom/ast.h:26-26 VASTNodeType
VASTNodeType_VASTReturn == 7
\* @src src/include/venom/ast.h:27-27 VASTNodeType
VASTNodeType_VASTAssignment == 8
\* @src src/include/venom/ast.h:28-28 VASTNodeType
VASTNodeType_VASTUnOp == 9
\* @src src/include/venom/ast.h:29-29 VASTNodeType
VASTNodeType_VASTBinOp == 10
\* @src src/include/venom/ast.h:30-30 VASTNodeType
VASTNodeType_VASTTernOp == 11
\* @src src/include/venom/ast.h:31-31 VASTNodeType
VASTNodeType_VASTDecorator == 12
\* @src src/include/venom/ast.h:32-32 VASTNodeType
VASTNodeType_VASTAttribute == 13
\* @src src/include/venom/ast.h:33-33 VASTNodeType
VASTNodeType_VASTSymbol == 14
\* @src src/include/venom/ast.h:34-34 VASTNodeType
VASTNodeType_VASTParameter == 15
\* @src src/include/venom/ast.h:35-35 VASTNodeType
VASTNodeType_VASTLiteral == 16
\* @src src/include/venom/ast.h:36-36 VASTNodeType
VASTNodeType_VASTFCall == 17
\* @src src/include/venom/ast.h:37-37 VASTNodeType
VASTNodeType_VASTAttributeAccess == 18
\* @src src/include/venom/ast.h:38-38 VASTNodeType
VASTNodeType_VASTSubscript == 19
\* @src src/include/venom/ast.h:39-39 VASTNodeType
VASTNodeType_VASTSlice == 20
\* @src src/include/venom/ast.h:40-40 VASTNodeType
VASTNodeType_VASTPass == 21
\* @src src/include/venom/ast.h:41-41 VASTNodeType
VASTNodeType_VASTBreak == 22
\* @src src/include/venom/ast.h:42-42 VASTNodeType
VASTNodeType_VASTContinue == 23
\* @src src/src/lexer.c:475-544 v_lexer_maps_init
g_keywords_map ==
     (<<"F", "a", "l", "s", "e">> :> VKeyword_False) @@
     (<<"a", "w", "a", "i", "t">> :> VKeyword_Await) @@
     (<<"e", "l", "s", "e">> :> VKeyword_Else) @@
     (<<"i", "m", "p", "o", "r", "t">> :> VKeyword_Import) @@
     (<<"p", "a", "s", "s">> :> VKeyword_Pass) @@
     (<<"N", "o", "n", "e">> :> VKeyword_None) @@
     (<<"b", "r", "e", "a", "k">> :> VKeyword_Break) @@
     (<<"e", "x", "c", "e", "p", "t">> :> VKeyword_Except) @@
     (<<"i", "n">> :> VKeyword_In) @@
     (<<"r", "a", "i", "s", "e">> :> VKeyword_Raise) @@
     (<<"T", "r", "u", "e">> :> VKeyword_True) @@
     (<<"c", "l", "a", "s", "s">> :> VKeyword_Class) @@
     (<<"f", "i", "n", "a", "l", "l", "y">> :> VKeyword_Finally) @@
     (<<"i", "s">> :> VKeyword_Is) @@
     (<<"r", "e", "t", "u", "r", "n">> :> VKeyword_Return) @@
     (<<"a", "n", "d">> :> VKeyword_And) @@
     (<<"c", "o", "n", "t", "i", "n", "u", "e">> :> VKeyword_Continue) @@
     (<<"f", "o", "r">> :> VKeyword_For) @@
     (<<"l", "a", "m", "b", "d", "a">> :> VKeyword_Lambda) @@
     (<<"t", "r", "y">> :> VKeyword_Try) @@
     (<<"a", "s">> :> VKeyword_As) @@
     (<<"d", "e", "f">> :> VKeyword_Def) @@
     (<<"f", "r", "o", "m">> :> VKeyword_From) @@
     (<<"n", "o", "n", "l", "o", "c", "a", "l">> :> VKeyword_Nonlocal) @@
     (<<"w", "h", "i", "l", "e">> :> VKeyword_While) @@
     (<<"a", "s", "s", "e", "r", "t">> :> VKeyword_Assert) @@
     (<<"d", "e", "l">> :> VKeyword_Del) @@
     (<<"g", "l", "o", "b", "a", "l">> :> VKeyword_Global) @@
     (<<"n", "o", "t">> :> VKeyword_Not) @@
     (<<"w", "i", "t", "h">> :> VKeyword_With) @@
     (<<"a", "s", "y", "n", "c">> :> VKeyword_Async) @@
     (<<"e", "l", "i", "f">> :> VKeyword_Elif) @@
     (<<"i", "f">> :> VKeyword_If) @@
     (<<"o", "r">> :> VKeyword_Or) @@
     (<<"y", "i", "e", "l", "d">> :> VKeyword_Yield)

\* @src src/src/lexer.c:551-574 v_lexer_maps_init
g_delimiters_map ==
     (<<"(">> :> VDelimiter_LParen) @@
     (<<")">> :> VDelimiter_RParen) @@
     (<<"[">> :> VDelimiter_LBracket) @@
     (<<"]">> :> VDelimiter_RBracket) @@
     (<<"{">> :> VDelimiter_LBrace) @@
     (<<"}">> :> VDelimiter_RBrace) @@
     (<<",">> :> VDelimiter_Comma) @@
     (<<":">> :> VDelimiter_Colon) @@
     (<<".">> :> VDelimiter_Dot) @@
     (<<";">> :> VDelimiter_SemiColon) @@
     (<<"@">> :> VDelimiter_At) @@
     (<<"-", ">">> :> VDelimiter_RightArrow)

\* @src src/src/lexer.c:581-658 v_lexer_maps_init
g_operators_map ==
     (<<"+">> :> VOperator_Addition) @@
     (<<"-">> :> VOperator_Subtraction) @@
     (<<"*">> :> VOperator_Multiplication) @@
     (<<"/">> :> VOperator_Division) @@
     (<<"%">> :> VOperator_Modulus) @@
     (<<"*", "*">> :> VOperator_Exponentiation) @@
     (<<"/", "/">> :> VOperator_FloorDivision) @@
     (<<"=">> :> VOperator_Assign) @@
     (<<"+", "=">> :> VOperator_AdditionAssign) @@
     (<<"-", "=">> :> VOperator_SubtractionAssign) @@
     (<<"*", "=">> :> VOperator_MultiplicationAssign) @@
     (<<"/", "=">> :> VOperator_DivisionAssign) @@
     (<<"%", "=">> :> VOperator_ModulusAssign) @@
     (<<"/", "/", "=">> :> VOperator_FloorDivisionAssign) @@
     (<<"*", "*", "=">> :> VOperator_ExponentiationAssign) @@
     (<<"&", "=">> :> VOperator_BitwiseAndAssign) @@
     (<<"|", "=">> :> VOperator_BitwiseOrAssign) @@
     (<<"^", "=">> :> VOperator_BitwiseXorAssign) @@
     (<<"<", "<", "=">> :> VOperator_BitwiseLShiftAssign) @@
     (<<">", ">", "=">> :> VOperator_BitwiseRShiftAssign) @@
     (<<"&">> :> VOperator_BitwiseAnd) @@
     (<<"|">> :> VOperator_BitwiseOr) @@
     (<<"^">> :> VOperator_BitwiseXor) @@
     (<<"~">> :> VOperator_BitwiseNot) @@
     (<<"<", "<">> :> VOperator_BitwiseLShift) @@
     (<<">", ">">> :> VOperator_BitwiseRShift) @@
     (<<"=", "=">> :> VOperator_ComparatorEquals) @@
     (<<"!", "=">> :> VOperator_ComparatorNotEquals) @@
     (<<">">> :> VOperator_ComparatorGreaterThan) @@
     (<<"<">> :> VOperator_ComparatorLessThan) @@
     (<<">", "=">> :> VOperator_ComparatorGreaterEqualsThan) @@
     (<<"<", "=">> :> VOperator_ComparatorLessEqualsThan) @@
     (<<"a", "n", "d">> :> VOperator_LogicalAnd) @@
     (<<"o", "r">> :> VOperator_LogicalOr) @@
     (<<"n", "o", "t">> :> VOperator_LogicalNot) @@
     (<<"i", "s">> :> VOperator_IdentityIs) @@
     (<<"i", "s", " ", "n", "o", "t">> :> VOperator_IdentityIsNot) @@
     (<<"i", "n">> :> VOperator_MembershipIn) @@
     (<<"n", "o", "t", " ", "i", "n">> :> VOperator_MembershipNotIn)
(***************************************************************************)
(* Characters                                                              *)
(***************************************************************************)
\* the terminating NUL of the buffer
NUL == "NUL"

\* @src src/src/lexer.c:748-748 v_lexer_lex
At(i) == IF i >= 1 /\ i <= Len(buffer) THEN buffer[i] ELSE NUL

LowerLetters == {"a","b","c","d","e","f","g","h","i","j","k","l","m",
                 "n","o","p","q","r","s","t","u","v","w","x","y","z"}
UpperLetters == {"A","B","C","D","E","F","G","H","I","J","K","L","M",
                 "N","O","P","Q","R","S","T","U","V","W","X","Y","Z"}
Digits == {"0","1","2","3","4","5","6","7","8","9"}
Quotes == {"\"", "'"}

\* @src src/src/lexer.c:205-208 is_letter
is_letter(c) == c \in LowerLetters \/ c \in UpperLetters

\* @src src/src/lexer.c:210-213 is_digit
is_digit(c) == c \in Digits

\* @src src/src/lexer.c:215-218 is_identifier_start
is_identifier_start(c) == is_letter(c) \/ c = "_"

\* @src src/src/lexer.c:220-223 is_identifier
is_identifier(c) == is_letter(c) \/ is_digit(c) \/ c = "_"

\* @src src/src/lexer.c:225-229 is_delimiter
is_delimiter(c) == c \in {"(", ")", "[", "]", "{", "}", ",", ":", ".", ";", "@", "-", ">"}

\* @src src/src/lexer.c:231-236 is_operator_start
is_operator_start(c) == c \in {"+", "-", "*", "/", "&", "|", "^", ">", "<", "=", "!", "%",
                               "a", "i", "n", "o"}

\* a set of binary operator bytes without '-', which is_delimiter lists too
is_binary_operator_but_minus(c) == c \in {"+", "*", "/", "&", "|", "^", ">", "<", "%"}

\* @src src/src/lexer.c:238-242 is_binary_operator
is_binary_operator(c) == c \in {"+", "-", "*", "/", "&", "|", "^", ">", "<", "%"}

\* @src src/src/lexer.c:244-247 is_unary_operator
is_unary_operator(c) == c = "!"

\* @src src/src/lexer.c:249-252 is_assignment_operator
is_assignment_operator(c) == c = "="

\* @src src/src/lexer.c:254-257 is_string_literal_prefix
is_string_literal_prefix(c) == c \in {"r", "u", "R", "U", "f", "F"}

\* @src src/src/lexer.c:259-262 is_numeric_literal_start
is_numeric_literal_start(c) == is_digit(c)

\* 0xFFFFFFFF as a uint32_t, that is -1 modulo 2^32. The uint32_t values of the
\* lexer (position, line, lengths) stay far below 2^31 on the buffers considered,
\* so they are plain integers here.
\* @src src/src/lexer.c:11-11 PY_LEX_ERROR
PY_LEX_ERROR == -1

\* @src src/src/lexer.c:731-731 MAX_INDENT_DEPTH
MAX_INDENT_DEPTH == 128

(***************************************************************************)
(* Scanning helpers                                                        *)
(***************************************************************************)
RECURSIVE OperatorRun(_, _)
\* @src src/src/lexer.c:329-333 is_operator
OperatorRun(c, length) ==
    IF is_binary_operator(At(c)) \/ is_assignment_operator(At(c))
    THEN OperatorRun(c + 1, length + 1)
    ELSE length

\* @src src/src/lexer.c:322-357 is_operator
is_operator(c) ==
    IF is_binary_operator(At(c)) THEN OperatorRun(c + 1, 1)
    ELSE IF is_assignment_operator(At(c))
         THEN (IF is_assignment_operator(At(c + 1)) THEN 2 ELSE 1)
    ELSE IF is_unary_operator(At(c))
         THEN (IF is_assignment_operator(At(c + 1)) THEN 2 ELSE PY_LEX_ERROR)
    ELSE 0

\* @src src/src/lexer.c:359-395 is_string_literal_start
is_string_literal_start(c) ==
    IF is_string_literal_prefix(At(c)) /\ At(c + 1) # NUL
    THEN IF At(c + 1) \in Quotes THEN 2
         ELSE IF is_string_literal_prefix(At(c + 1))
              THEN (IF At(c + 2) # NUL /\ At(c + 2) \in Quotes THEN 3 ELSE 0)
              ELSE 0
    ELSE IF At(c) \in Quotes
         THEN IF At(c + 1) # NUL /\ At(c + 1) \in Quotes
                 /\ At(c + 2) # NUL /\ At(c + 2) \in Quotes
              THEN 3
              ELSE 1
         ELSE 0

RECURSIVE consume_string_literal(_, _, _, _)
\* @src src/src/lexer.c:397-415 consume_string_literal
consume_string_literal(c, pos, ln, length) ==
    IF At(c) # NUL /\ At(c) \notin Quotes
    THEN IF At(c + 1) = "\n"
         THEN consume_string_literal(c + 1, 0, ln + 1, length + 1)
         ELSE consume_string_literal(c + 1, pos + 1, ln, length + 1)
    ELSE [length |-> length, position |-> pos, line |-> ln]

RECURSIVE consume_int_literal(_, _)
\* @src src/src/lexer.c:417-428 consume_int_literal
consume_int_literal(c, length) ==
    IF At(c) # NUL /\ is_digit(At(c))
    THEN consume_int_literal(c + 1, length + 1)
    ELSE length

RECURSIVE consume_float_literal(_, _, _)
\* @src src/src/lexer.c:430-460 consume_float_literal
consume_float_literal(c, length, found_dot) ==
    IF At(c) = NUL THEN (IF found_dot THEN length ELSE 0)
    ELSE IF At(c) = "."
         THEN (IF found_dot THEN length
               ELSE consume_float_literal(c + 1, length + 1, TRUE))
    ELSE IF is_digit(At(c)) THEN consume_float_literal(c + 1, length + 1, found_dot)
    ELSE (IF found_dot THEN length ELSE 0)

\* the bytes start[0 .. length-1] of the buffer
\* @src src/include/venom/lexer.h:164-172 VToken
Lexeme(start, length) ==
    [i \in 1..length |-> At(start + i - 1)]

\* a keyword table without the words that the operator table also holds
v_lexer_maps_get_keyword_not_operator(word) ==
    IF word \in DOMAIN g_keywords_map \ DOMAIN g_operators_map
    THEN g_keywords_map[word] ELSE VKeyword_Unknown

\* @src src/src/lexer.c:661-673 v_lexer_maps_get_keyword
v_lexer_maps_get_keyword(word) ==
    IF word \in DOMAIN g_keywords_map THEN g_keywords_map[word] ELSE VKeyword_Unknown

\* @src src/src/lexer.c:675-687 v_lexer_maps_get_delimiter
v_lexer_maps_get_delimiter(word) ==
    IF word \in DOMAIN g_delimiters_map THEN g_delimiters_map[word] ELSE VDelimiter_Unknown

\* @src src/src/lexer.c:689-701 v_lexer_maps_get_operator
v_lexer_maps_get_operator(word) ==
    IF word \in DOMAIN g_operators_map THEN g_operators_map[word] ELSE VOperator_Unknown

\* @src src/include/venom/lexer.h:164-172 VToken
VToken(start, length, kind, type, pos, ln) ==
    [start |-> start, length |-> length, kind |-> kind, type |-> type,
     position |-> pos, line |-> ln]

RECURSIVE SkipWhile(_, _)
\* @src src/src/lexer.c:766-770 v_lexer_lex
SkipWhile(c, S) == IF At(c) # NUL /\ At(c) \in S THEN SkipWhile(c + 1, S) ELSE c

RECURSIVE IdentifierEnd(_)
\* @src src/src/lexer.c:819-824 v_lexer_lex
IdentifierEnd(c) == IF At(c) # NUL /\ is_identifier(At(c)) THEN IdentifierEnd(c + 1) ELSE c

RECURSIVE DelimiterEnd(_)
\* @src src/src/lexer.c:870-875 v_lexer_lex
DelimiterEnd(c) == IF At(c) # NUL /\ is_delimiter(At(c)) THEN DelimiterEnd(c + 1) ELSE c

RECURSIVE CommentEnd(_)
\* @src src/src/lexer.c:1015-1019 v_lexer_lex
CommentEnd(c) == IF At(c) # NUL /\ At(c) # "\n" THEN CommentEnd(c + 1) ELSE c

(***************************************************************************)
(* v_lexer_lex: one action per branch of the scan loop                     *)
(***************************************************************************)
\* @src src/src/lexer.c:733-746 v_lexer_lex
LexInit ==
    /\ s = 1
    /\ position = 1
    /\ line = 1
    /\ indent_stack = <<0>>
    /\ tokens = <<>>
    /\ pc = "lexing"

\* @src src/src/lexer.c:750-771 v_lexer_lex
LexString ==
    /\ pc = "lexing" /\ At(s) # NUL
    /\ is_string_literal_start(s) # 0
    /\ LET prefix == is_string_literal_start(s)
           start  == s + prefix
           r      == consume_string_literal(start, position + prefix, line, 0)
           token  == VToken(start, r.length, VTokenKind_Literal, VLiteral_String,
                            r.position, r.line)
           stop   == SkipWhile(start + r.length, Quotes)
       IN /\ tokens' = Append(tokens, token)
          /\ s' = stop
          /\ position' = r.position + (stop - (start + r.length))
          /\ line' = r.line
    /\ UNCHANGED <<buffer, indent_stack, pc, ast, ret, parser, live, symtable>>

\* @src src/src/lexer.c:772-810 v_lexer_lex
LexNumber ==
    /\ pc = "lexing" /\ At(s) # NUL
    /\ is_string_literal_start(s) = 0
    /\ is_numeric_literal_start(At(s))
    /\ LET flen == consume_float_literal(s, 0, FALSE)
           ilen == consume_int_literal(s, 0)
       IN IF flen > 0
          THEN /\ tokens' = Append(tokens, VToken(s, flen, VTokenKind_Literal, VLiteral_Float,
                                                  position, line))
               /\ s' = s + flen
               /\ position' = position + flen
          ELSE IF ilen > 0
          THEN /\ tokens' = Append(tokens, VToken(s, ilen, VTokenKind_Literal, VLiteral_Integer,
                                                  position, line))
               /\ s' = s + ilen
               /\ position' = position + ilen
          ELSE UNCHANGED <<tokens, s, position>>
    /\ UNCHANGED <<buffer, line, indent_stack, pc, ast, ret, parser, live, symtable>>

\* @src src/src/lexer.c:811-859 v_lexer_lex
LexIdentifier ==
    /\ pc = "lexing" /\ At(s) # NUL
    /\ is_string_literal_start(s) = 0
    /\ ~is_numeric_literal_start(At(s))
    /\ is_identifier_start(At(s))
    /\ LET start  == s
           stop   == IdentifierEnd(s + 1)
           length == stop - start
           pos    == position + length
           word   == Lexeme(start, length)
           kw     == v_lexer_maps_get_keyword(word)
           op     == v_lexer_maps_get_operator(word)
           tokpos == pos - length
           token  == IF kw # VKeyword_Unknown
                     THEN VToken(start, length, VTokenKind_Keyword, kw, tokpos, line)
                     ELSE IF op # VOperator_Unknown
                     THEN VToken(start, length, VTokenKind_Operator, op, tokpos, line)
                     ELSE VToken(start, length, VTokenKind_Identifier, 0, tokpos, line)
       IN /\ tokens' = Append(tokens, token)
          /\ s' = stop
          /\ position' = pos
    /\ UNCHANGED <<buffer, line, indent_stack, pc, ast, ret, parser, live, symtable>>

\* The code at label_is_operator, entered with read position s0 and column pos0.
\* An operator spelled "!" alone makes is_operator return PY_LEX_ERROR, and the
\* table lookup is then asked to read PY_LEX_ERROR bytes from the buffer: the
\* read runs past the end of the buffer, so the call either faults or comes
\* back and the lexer returns false.
\* @src src/src/lexer.c:893-919 v_lexer_lex
LexOperatorAt(s0, pos0) ==
    LET start  == s0
        length == is_operator(s0)
    IN IF length = 0
       THEN /\ s' = s0 /\ position' = pos0
            /\ UNCHANGED <<tokens, pc>>
       ELSE IF length = PY_LEX_ERROR
       THEN /\ s' = s0 /\ position' = pos0 + length
            /\ UNCHANGED tokens
            /\ pc' \in {"lex_error", "crashed"}
       ELSE LET pos   == pos0 + length
                value == v_lexer_maps_get_operator(Lexeme(start, length))
            IN IF value = VOperator_Unknown
               THEN /\ s' = s0 /\ position' = pos
                    /\ UNCHANGED tokens
                    /\ pc' = "lex_error"
               ELSE /\ tokens' = Append(tokens, VToken(start, length, VTokenKind_Operator,
                                                       value, pos, line))
                    /\ s' = s0 + length
                    /\ position' = pos
                    /\ UNCHANGED pc

\* @src src/src/lexer.c:860-890 v_lexer_lex
LexDelimiter ==
    /\ pc = "lexing" /\ At(s) # NUL
    /\ is_string_literal_start(s) = 0
    /\ ~is_numeric_literal_start(At(s))
    /\ ~is_identifier_start(At(s))
    /\ is_delimiter(At(s))
    /\ LET start  == s
           stop   == IF At(start) = "-" THEN DelimiterEnd(s + 1) ELSE s + 1
           length == stop - start
           pos    == position + length
           value  == v_lexer_maps_get_delimiter(Lexeme(start, length))
       IN IF value = VDelimiter_Unknown
          THEN LexOperatorAt(stop - length, pos - length)
          ELSE /\ tokens' = Append(tokens, VToken(start, length, VTokenKind_Delimiter, value,
                                                  pos, line))
               /\ s' = stop
               /\ position' = pos
               /\ UNCHANGED pc
    /\ UNCHANGED <<buffer, line, indent_stack, ast, ret, parser, live, symtable>>

\* @src src/src/lexer.c:891-919 v_lexer_lex
LexOperator ==
    /\ pc = "lexing" /\ At(s) # NUL
    /\ is_string_literal_start(s) = 0
    /\ ~is_numeric_literal_start(At(s))
    /\ ~is_identifier_start(At(s))
    /\ ~is_delimiter(At(s))
    /\ is_operator_start(At(s))
    /\ LexOperatorAt(s, position)
    /\ UNCHANGED <<buffer, line, indent_stack, ast, ret, parser, live, symtable>>

RECURSIVE NewlineRun(_, _, _)
\* @src src/src/lexer.c:931-939 v_lexer_lex
NewlineRun(c, ln, toks) ==
    IF At(c) # NUL /\ At(c) = "\n"
    THEN NewlineRun(c + 1, ln + 1,
                    Append(toks, VToken(0, 0, VTokenKind_Newline, 0, 0, ln)))
    ELSE [s |-> c, line |-> ln, tokens |-> toks]

RECURSIVE PopDedentsSilently(_, _, _, _)
\* a dedent loop that leaves the levels without writing their Dedent tokens
PopDedentsSilently(stack, toks, line_indent, dedent_token) ==
    IF Len(stack) > 1 /\ stack[Len(stack)] > line_indent
    THEN PopDedentsSilently(SubSeq(stack, 1, Len(stack) - 1), toks, line_indent,
                            dedent_token)
    ELSE [stack |-> stack, tokens |-> toks]

RECURSIVE PopDedents(_, _, _, _)
\* @src src/src/lexer.c:983-996 v_lexer_lex
PopDedents(stack, toks, line_indent, dedent_token) ==
    IF Len(stack) > 1 /\ stack[Len(stack)] > line_indent
    THEN PopDedents(SubSeq(stack, 1, Len(stack) - 1), Append(toks, dedent_token),
                    line_indent, dedent_token)
    ELSE [stack |-> stack, tokens |-> toks]

\* a lexer that measures the indentation of comment lines
BlankLineButComment(stop) == At(stop) = "\n" \/ At(stop) = NUL

\* the test after the leading spaces: the line is empty or a comment
\* @src src/src/lexer.c:950-953 v_lexer_lex
BlankLine(stop) == At(stop) = "\n" \/ At(stop) = NUL \/ At(stop) = "#"

\* a lexer that finds the stack full one entry late
IndentOverflowPastCapacity(stack) == Len(stack) > MAX_INDENT_DEPTH

\* the test before a level is pushed: the stack's slots are all taken
\* @src src/src/lexer.c:960-967 v_lexer_lex
IndentOverflow(stack) == Len(stack) >= MAX_INDENT_DEPTH

\* a lexer whose dedent loop is followed by no test
UnindentUnchecked(stack, line_indent) == FALSE

\* the test after the dedent loop: the line's indentation is no open level
\* @src src/src/lexer.c:998-1008 v_lexer_lex
UnindentMismatch(stack, line_indent) == stack[Len(stack)] # line_indent

\* @src src/src/lexer.c:920-1012 v_lexer_lex
LexNewline ==
    /\ pc = "lexing" /\ At(s) # NUL
    /\ is_string_literal_start(s) = 0
    /\ ~is_numeric_literal_start(At(s))
    /\ ~is_identifier_start(At(s))
    /\ ~is_delimiter(At(s))
    /\ ~is_operator_start(At(s))
    /\ At(s) = "\n"
    /\ LET first        == Append(tokens, VToken(0, 0, VTokenKind_Newline, 0, position, line))
           run          == NewlineRun(s + 1, line + 1, first)
           indent_start == run.s
           stop         == SkipWhile(indent_start, {" "})
           line_indent  == stop - indent_start
           pos          == line_indent
           current_indent_level == indent_stack[Len(indent_stack)]
           tokpos       == pos - line_indent
       IN /\ s' = stop
          /\ line' = run.line
          /\ position' = pos
          /\ IF BlankLine(stop)
             THEN /\ tokens' = run.tokens
                  /\ UNCHANGED <<indent_stack, pc>>
             ELSE IF line_indent > current_indent_level
             THEN IF IndentOverflow(indent_stack)
                  THEN /\ tokens' = run.tokens
                       /\ pc' = "lex_error"
                       /\ UNCHANGED indent_stack
                  ELSE /\ indent_stack' = Append(indent_stack, line_indent)
                       /\ tokens' = Append(run.tokens,
                                           VToken(indent_start, line_indent, VTokenKind_Indent,
                                                  0, tokpos, run.line))
                       /\ UNCHANGED pc
             ELSE IF line_indent < current_indent_level
             THEN LET popped == PopDedents(indent_stack, run.tokens, line_indent,
                                           VToken(indent_start, 0, VTokenKind_Dedent, 0,
                                                  tokpos, run.line))
                  IN /\ indent_stack' = popped.stack
                     /\ tokens' = popped.tokens
                     /\ pc' = IF UnindentMismatch(popped.stack, line_indent)
                              THEN "lex_error" ELSE pc
             ELSE /\ tokens' = run.tokens
                  /\ UNCHANGED <<indent_stack, pc>>
    /\ UNCHANGED <<buffer, ast, ret, parser, live, symtable>>

\* @src src/src/lexer.c:1013-1020 v_lexer_lex
LexComment ==
    /\ pc = "lexing" /\ At(s) # NUL
    /\ is_string_literal_start(s) = 0
    /\ ~is_numeric_literal_start(At(s))
    /\ ~is_identifier_start(At(s))
    /\ ~is_delimiter(At(s))
    /\ ~is_operator_start(At(s))
    /\ At(s) # "\n"
    /\ At(s) = "#"
    /\ LET stop == CommentEnd(s)
       IN /\ s' = stop
          /\ position' = position + (stop - s)
    /\ UNCHANGED <<buffer, line, indent_stack, tokens, pc, ast, ret, parser, live, symtable>>

\* @src src/src/lexer.c:1021-1025 v_lexer_lex
LexOther ==
    /\ pc = "lexing" /\ At(s) # NUL
    /\ is_string_literal_start(s) = 0
    /\ ~is_numeric_literal_start(At(s))
    /\ ~is_identifier_start(At(s))
    /\ ~is_delimiter(At(s))
    /\ ~is_operator_start(At(s))
    /\ At(s) # "\n"
    /\ At(s) # "#"
    /\ s' = s + 1
    /\ position' = position + 1
    /\ UNCHANGED <<buffer, line, indent_stack, tokens, pc, ast, ret, parser, live, symtable>>

\* an end of the scan that writes a Newline token in the place of the EOF token
LexEOFAsNewline ==
    /\ pc = "lexing" /\ At(s) = NUL
    /\ tokens' = Append(tokens, VToken(0, 0, VTokenKind_Newline, 0, position, line))
    /\ pc' = "lexed"
    /\ UNCHANGED <<buffer, s, position, line, indent_stack, ast, ret, parser, live, symtable>>

\* @src src/src/lexer.c:1028-1032 v_lexer_lex
LexEOF ==
    /\ pc = "lexing" /\ At(s) = NUL
    /\ tokens' = Append(tokens, VToken(0, 0, VTokenKind_EOF, 0, position, line))
    /\ pc' = "lexed"
    /\ UNCHANGED <<buffer, s, position, line, indent_stack, ast, ret, parser, live, symtable>>

(***************************************************************************)
(* AST values.  A VASTNode* is a record whose field `type` is the node's   *)
(* VASTNodeType; NULL is the null pointer.  A Vector* is a record that is  *)
(* either the null pointer or holds the elements in order.  A String is a  *)
(* sequence of characters, or the null pointer NullString.                 *)
(***************************************************************************)
\* @src src/include/venom/ast.h:48-51 VASTNode
NULL == [type |-> -1]

\* @src src/src/ast.c:770-775 v_parser_peek
NullToken == [start |-> 0, length |-> 0, kind |-> -1, type |-> -1, position |-> 0, line |-> 0]

\* @src src/include/venom/ast.h:59-63 VASTImportSymbol
NullString == <<"NULL">>

\* @src src/src/ast.c:1024-1024 v_parse_decorators
NullVec == [null |-> TRUE, items |-> <<>>]

\* @src src/src/ast.c:988-988 v_parse_source
vector_new == [null |-> FALSE, items |-> <<>>]

\* @src src/src/ast.c:1016-1016 v_parse_source
vector_push_back(v, e) == [null |-> FALSE, items |-> Append(v.items, e)]

\* @src src/src/ast.c:1066-1066 v_parse_decorator
TokenString(tok) == Lexeme(tok.start, tok.length)

\* @src src/src/ast.c:761-761 VParser
NoError == [null |-> TRUE]

\* string_newf("Parsing error at line %d: %s", line_info, message)
\* @src src/src/ast.c:888-890 v_parser_set_error
ParsingError(line_info, message) ==
    [null |-> FALSE, prefix |-> "Parsing error at line ", line |-> line_info,
     sep |-> ": ", message |-> message]

\* @src src/src/ast.c:3613-3621 v_ast_new_source
v_ast_new_source(decls) == [type |-> VASTNodeType_VASTSource, decls |-> decls]

\* @src src/src/ast.c:3692-3705 v_ast_new_import
v_ast_new_import(name, alias, symbols) ==
    [type |-> VASTNodeType_VASTImport, name |-> name, alias |-> alias, symbols |-> symbols]

\* @src src/src/ast.c:3730-3746 v_ast_new_class
v_ast_new_class(name, bases, attributes, functions) ==
    [type |-> VASTNodeType_VASTClass, name |-> name, bases |-> bases,
     attributes |-> attributes, functions |-> functions, decorators |-> NullVec]

\* @src src/src/ast.c:3778-3794 v_ast_new_function
v_ast_new_function(name, params, return_type, body) ==
    [type |-> VASTNodeType_VASTFunction, name |-> name, params |-> params, body |-> body,
     return_type |-> return_type, decorators |-> NullVec]

\* @src src/src/ast.c:3818-3826 v_ast_new_body
v_ast_new_body(stmts) == [type |-> VASTNodeType_VASTBody, stmts |-> stmts]

\* @src src/src/ast.c:3838-3849 v_ast_new_for
v_ast_new_for(is_while, target, cond, body) ==
    [type |-> VASTNodeType_VASTFor, is_while |-> is_while, target |-> target,
     cond |-> cond, body |-> body]

\* @src src/src/ast.c:3863-3873 v_ast_new_if
v_ast_new_if(condition, body, else_node) ==
    [type |-> VASTNodeType_VASTIf, condition |-> condition, body |-> body,
     else_node |-> else_node]

\* @src src/src/ast.c:3887-3895 v_ast_new_return
v_ast_new_return(value) == [type |-> VASTNodeType_VASTReturn, value |-> value]

\* @src src/src/ast.c:3907-3922 v_ast_new_assignment
v_ast_new_assignment(target, value, op, type) ==
    [type |-> VASTNodeType_VASTAssignment, target |-> target, value |-> value,
     op |-> op, vtype |-> type]

\* @src src/src/ast.c:3935-3944 v_ast_new_unop
v_ast_new_unop(op, operand) == [type |-> VASTNodeType_VASTUnOp, op |-> op, operand |-> operand]

\* @src src/src/ast.c:3956-3966 v_ast_new_binop
v_ast_new_binop(op, left, right) ==
    [type |-> VASTNodeType_VASTBinOp, op |-> op, left |-> left, right |-> right]

\* @src src/src/ast.c:3979-3989 v_ast_new_ternop
v_ast_new_ternop(condition, if_expr, else_expr) ==
    [type |-> VASTNodeType_VASTTernOp, condition |-> condition, if_expr |-> if_expr,
     else_expr |-> else_expr]

\* @src src/src/ast.c:4003-4011 v_ast_new_decorator
v_ast_new_decorator(name) == [type |-> VASTNodeType_VASTDecorator, name |-> name]

\* @src src/src/ast.c:4023-4036 v_ast_new_attribute
v_ast_new_attribute(name, type, initial_value) ==
    [type |-> VASTNodeType_VASTAttribute, name |-> name, vtype |-> type,
     initial_value |-> initial_value]

\* @src src/src/ast.c:4048-4057 v_ast_new_symbol
v_ast_new_symbol(name, type) == [type |-> VASTNodeType_VASTSymbol, name |-> name, vtype |-> type]

\* @src src/src/ast.c:4069-4082 v_ast_new_argument
v_ast_new_argument(name, type, default_value) ==
    [type |-> VASTNodeType_VASTParameter, name |-> name, vtype |-> type,
     default_value |-> default_value]

\* @src src/src/ast.c:4096-4105 v_ast_new_literal_int
v_ast_new_literal_int(value) ==
    [type |-> VASTNodeType_VASTLiteral, lit_type |-> VType_Int, int_val |-> value]

\* @src src/src/ast.c:4107-4116 v_ast_new_literal_float
v_ast_new_literal_float(value) ==
    [type |-> VASTNodeType_VASTLiteral, lit_type |-> VType_Float, float_val |-> value]

\* @src src/src/ast.c:4118-4127 v_ast_new_literal_string
v_ast_new_literal_string(value) ==
    [type |-> VASTNodeType_VASTLiteral, lit_type |-> VType_String, str_val |-> value]

\* @src src/src/ast.c:4129-4138 v_ast_new_literal_bool
v_ast_new_literal_bool(value) ==
    [type |-> VASTNodeType_VASTLiteral, lit_type |-> VType_Bool, bool_val |-> value]

\* @src src/src/ast.c:4140-4148 v_ast_new_literal_none
v_ast_new_literal_none == [type |-> VASTNodeType_VASTLiteral, lit_type |-> VType_None]

\* @src src/src/ast.c:4150-4159 v_ast_new_literal_list
v_ast_new_literal_list(elements) ==
    [type |-> VASTNodeType_VASTLiteral, lit_type |-> VType_List, elements |-> elements]

\* @src src/src/ast.c:4161-4171 v_ast_new_literal_dict
v_ast_new_literal_dict(keys, values) ==
    [type |-> VASTNodeType_VASTLiteral, lit_type |-> VType_Dict, keys |-> keys,
     values |-> values]

\* @src src/src/ast.c:4173-4182 v_ast_new_literal_tuple
v_ast_new_literal_tuple(elements) ==
    [type |-> VASTNodeType_VASTLiteral, lit_type |-> VType_Tuple, elements |-> elements]

\* @src src/src/ast.c:4184-4193 v_ast_new_literal_set
v_ast_new_literal_set(elements) ==
    [type |-> VASTNodeType_VASTLiteral, lit_type |-> VType_Set, elements |-> elements]

\* @src src/src/ast.c:4223-4238 v_ast_new_fcall
v_ast_new_fcall(callable, args, kwarg_names, kwarg_values) ==
    [type |-> VASTNodeType_VASTFCall, callable |-> callable, args |-> args,
     kwargs |-> [names |-> kwarg_names, values |-> kwarg_values]]

\* @src src/src/ast.c:4254-4263 v_ast_new_attribute_access
v_ast_new_attribute_access(object, attribute_name) ==
    [type |-> VASTNodeType_VASTAttributeAccess, object |-> object,
     attribute_name |-> attribute_name]

\* @src src/src/ast.c:4280-4289 v_ast_new_subscript
v_ast_new_subscript(value, slice) ==
    [type |-> VASTNodeType_VASTSubscript, value |-> value, slice |-> slice]

\* @src src/src/ast.c:4302-4312 v_ast_new_slice
v_ast_new_slice(start, stop, step) ==
    [type |-> VASTNodeType_VASTSlice, start |-> start, stop |-> stop, step |-> step]

\* @src src/src/ast.c:4326-4333 v_ast_new_pass
v_ast_new_pass == [type |-> VASTNodeType_VASTPass]

\* @src src/src/ast.c:4341-4348 v_ast_new_break
v_ast_new_break == [type |-> VASTNodeType_VASTBreak]

\* @src src/src/ast.c:4356-4363 v_ast_new_continue
v_ast_new_continue == [type |-> VASTNodeType_VASTContinue]

(***************************************************************************)
(* Parser driver.  A VParser is [current, error, ub, garbage]: the cursor, *)
(* the error latch, and the record of a read through a null VToken*: ub    *)
(* tells that such a read happened, in which case the call either faults   *)
(* or goes on with the value `garbage` that the read produced.  The field  *)
(* set_error_calls is the history of the calls of v_parser_set_error: the  *)
(* messages it was called with, in order; no code reads it.                *)
(* The field leaked is the bag of the heap blocks that the returns of      *)
(* v_parse_import and v_parse_argument_list have left allocated with no    *)
(* pointer to them; no code reads it.                                      *)
(* Every production takes the VParser and returns it next to its result.   *)
(***************************************************************************)
\* @src src/src/ast.c:764-768 v_parser_is_at_end
v_parser_is_at_end(p) ==
    p.current >= Len(tokens) \/ tokens[p.current + 1].kind = VTokenKind_EOF

\* @src src/src/ast.c:770-778 v_parser_peek
v_parser_peek(p) == IF v_parser_is_at_end(p) THEN NullToken ELSE tokens[p.current + 1]

\* @src src/src/ast.c:780-788 v_parser_advance
v_parser_advance(p) ==
    IF ~v_parser_is_at_end(p) THEN [p EXCEPT !.current = p.current + 1] ELSE p

\* @src src/src/ast.c:790-798 v_parser_check
v_parser_check(p, kind) ==
    IF v_parser_is_at_end(p) THEN FALSE ELSE v_parser_peek(p).kind = kind

\* @src src/src/ast.c:800-810 v_parser_check_keyword
v_parser_check_keyword(p, keyword) ==
    IF v_parser_is_at_end(p) THEN FALSE
    ELSE LET token == v_parser_peek(p)
         IN token.kind = VTokenKind_Keyword /\ token.type = keyword

\* @src src/src/ast.c:812-822 v_parser_check_delimiter
v_parser_check_delimiter(p, delimiter) ==
    IF v_parser_is_at_end(p) THEN FALSE
    ELSE LET token == v_parser_peek(p)
         IN token.kind = VTokenKind_Delimiter /\ token.type = delimiter

\* @src src/src/ast.c:824-834 v_parser_check_operator
v_parser_check_operator(p, op) ==
    IF v_parser_is_at_end(p) THEN FALSE
    ELSE LET token == v_parser_peek(p)
         IN token.kind = VTokenKind_Operator /\ token.type = op

\* @src src/src/ast.c:836-845 v_parser_match
v_parser_match(p, kind) ==
    IF v_parser_check(p, kind)
    THEN [p |-> v_parser_advance(p), ok |-> TRUE]
    ELSE [p |-> p, ok |-> FALSE]

\* @src src/src/ast.c:847-856 v_parser_match_keyword
v_parser_match_keyword(p, keyword) ==
    IF v_parser_check_keyword(p, keyword)
    THEN [p |-> v_parser_advance(p), ok |-> TRUE]
    ELSE [p |-> p, ok |-> FALSE]

\* @src src/src/ast.c:858-867 v_parser_match_delimiter
v_parser_match_delimiter(p, delimiter) ==
    IF v_parser_check_delimiter(p, delimiter)
    THEN [p |-> v_parser_advance(p), ok |-> TRUE]
    ELSE [p |-> p, ok |-> FALSE]

\* @src src/src/ast.c:869-878 v_parser_match_operator
v_parser_match_operator(p, op) ==
    IF v_parser_check_operator(p, op)
    THEN [p |-> v_parser_advance(p), ok |-> TRUE]
    ELSE [p |-> p, ok |-> FALSE]

\* v_parser_set_error without the test of the latch: the last error wins
v_parser_set_error_unlatched(p0, message) ==
    LET p == [p0 EXCEPT !.set_error_calls = Append(@, message)]
        token == v_parser_peek(p)
    IN IF token = NullToken
       THEN [p EXCEPT !.error = ParsingError(p.garbage.line, message), !.ub = TRUE]
       ELSE [p EXCEPT !.error = ParsingError(token.line, message)]

\* v_parser_peek returns NULL when the cursor is on the EOF token, and
\* token->line is then a read through a null pointer.
\* @src src/src/ast.c:880-891 v_parser_set_error
v_parser_set_error(p0, message) ==
    LET p == [p0 EXCEPT !.set_error_calls = Append(@, message)] IN
    IF p.error # NoError THEN p
    ELSE LET token == v_parser_peek(p)
         IN IF token = NullToken
            THEN [p EXCEPT !.error = ParsingError(p.garbage.line, message), !.ub = TRUE]
            ELSE [p EXCEPT !.error = ParsingError(token.line, message)]

\* @src src/src/ast.c:893-905 v_parser_consume_kind
v_parser_consume_kind(p, kind, error_message) ==
    IF v_parser_check(p, kind)
    THEN [p |-> v_parser_advance(p), tok |-> v_parser_peek(p)]
    ELSE [p |-> v_parser_set_error(p, error_message), tok |-> NullToken]

\* @src src/src/ast.c:907-919 v_parser_consume_delimiter
v_parser_consume_delimiter(p, delimiter, error_message) ==
    IF v_parser_check_delimiter(p, delimiter)
    THEN [p |-> v_parser_advance(p), tok |-> v_parser_peek(p)]
    ELSE [p |-> v_parser_set_error(p, error_message), tok |-> NullToken]

\* @src src/src/ast.c:921-933 v_parser_consume_keyword
v_parser_consume_keyword(p, keyword, error_message) ==
    IF v_parser_check_keyword(p, keyword)
    THEN [p |-> v_parser_advance(p), tok |-> v_parser_peek(p)]
    ELSE [p |-> v_parser_set_error(p, error_message), tok |-> NullToken]

\* a production's return: the VParser, the node (or NULL), and whether the
\* node is one (what the caller's test of the pointer reads)
\* @src src/src/ast.c:756-762 VParser
R(p, n) == [p |-> p, n |-> n, ok |-> n # NULL]

(***************************************************************************)
(* strtoll(start, &endptr, 0) and strtod(start, &endptr) on the bytes of   *)
(* the buffer that begin at a literal token.                               *)
(***************************************************************************)
HexDigits == Digits \cup {"a","b","c","d","e","f","A","B","C","D","E","F"}
OctDigits == {"0","1","2","3","4","5","6","7"}

\* @src src/src/ast.c:2945-2945 v_parse_literal
DigitValue(c) ==
    CASE c = "0" -> 0 [] c = "1" -> 1 [] c = "2" -> 2 [] c = "3" -> 3 [] c = "4" -> 4
      [] c = "5" -> 5 [] c = "6" -> 6 [] c = "7" -> 7 [] c = "8" -> 8 [] c = "9" -> 9
      [] c \in {"a","A"} -> 10 [] c \in {"b","B"} -> 11 [] c \in {"c","C"} -> 12
      [] c \in {"d","D"} -> 13 [] c \in {"e","E"} -> 14 [] c \in {"f","F"} -> 15

RECURSIVE StrtollRun(_, _, _, _)
\* @src src/src/ast.c:2945-2945 v_parse_literal
StrtollRun(c, base, valid, val) ==
    IF At(c) \in valid
    THEN StrtollRun(c + 1, base, valid, val * base + DigitValue(At(c)))
    ELSE [val |-> val, endptr |-> c]

\* @src src/src/ast.c:2945-2945 v_parse_literal
strtoll(start) ==
    IF At(start) = "0" /\ At(start + 1) \in {"x", "X"} /\ At(start + 2) \in HexDigits
    THEN StrtollRun(start + 2, 16, HexDigits, 0)
    ELSE IF At(start) = "0" THEN StrtollRun(start, 8, OctDigits, 0)
    ELSE StrtollRun(start, 10, Digits, 0)

RECURSIVE DigitsEnd(_)
\* @src src/src/ast.c:2958-2958 v_parse_literal
DigitsEnd(c) == IF At(c) \in Digits THEN DigitsEnd(c + 1) ELSE c

\* The end of the decimal floating constant at start: digits, an optional
\* fraction, and an exponent when one is complete.  The double is kept as the
\* text that was converted.
\* @src src/src/ast.c:2958-2958 v_parse_literal
strtod(start) ==
    LET int_end  == DigitsEnd(start)
        frac_end == IF At(int_end) = "." THEN DigitsEnd(int_end + 1) ELSE int_end
        sign_end == IF At(frac_end) \in {"e", "E"}
                    THEN (IF At(frac_end + 1) \in {"+", "-"} THEN frac_end + 2
                          ELSE frac_end + 1)
                    ELSE frac_end
        endptr   == IF sign_end > frac_end /\ At(sign_end) \in Digits
                    THEN DigitsEnd(sign_end) ELSE frac_end
    IN [val |-> Lexeme(start, endptr - start), endptr |-> endptr]

\* the NUL-terminated string that begins at start
\* @src src/src/ast.c:3338-3338 v_parse_type_annotation
CString(start) == [i \in 1..(Len(buffer) - start + 1) |-> At(start + i - 1)]

\* @src src/src/type.c:9-36 v_string_to_type
v_string_to_type(start0) ==
    LET start == IF CString(start0) = <<"t","y","p","i","n","g",".">> THEN start0 + 7
                 ELSE start0
        str   == CString(start)
    IN IF str # <<"i","n","t">> THEN VType_Int
       ELSE IF str # <<"f","l","o","a","t">> THEN VType_Float
       ELSE IF str # <<"s","t","r">> THEN VType_String
       ELSE IF str # <<"b","o","o","l">> THEN VType_Bool
       ELSE IF str # <<"L","i","s","t">> THEN VType_List
       ELSE IF str # <<"T","u","p","l","e">> THEN VType_Tuple
       ELSE IF str # <<"D","i","c","t">> THEN VType_Dict
       ELSE IF str # <<"S","e","t">> THEN VType_Set
       ELSE VType_Unknown

(***************************************************************************)
(* Destruction.  The heap blocks an AST holds are counted by kind, in a    *)
(* bag over "node" (calloc), "string" (string_newf, string_copy) and       *)
(* "vector" (vector_new).                                                  *)
(***************************************************************************)
\* n blocks of the kind
\* @src src/src/ast.c:3613-3621 v_ast_new_source
Blocks(kind, n) == IF n = 0 THEN EmptyBag ELSE [k \in {kind} |-> n]

\* the block of a String, none for NULL
\* @src src/src/ast.c:3714-3722 v_ast_destroy_import
StringBlock(str) == IF str = NullString THEN EmptyBag ELSE Blocks("string", 1)

RECURSIVE Allocated(_)
RECURSIVE AllocatedFrom(_, _)

\* the blocks held by the elements of a vector of nodes, from the i-th on
\* @src src/src/ast.c:1016-1016 v_parse_source
AllocatedFrom(items, i) ==
    IF i > Len(items) THEN EmptyBag
    ELSE Allocated(items[i]) (+) AllocatedFrom(items, i + 1)

\* the blocks of a vector of nodes: the vector and what its elements hold
\* @src src/src/ast.c:988-1016 v_parse_source
AllocatedVector(vec) ==
    IF vec.null THEN EmptyBag ELSE Blocks("vector", 1) (+) AllocatedFrom(vec.items, 1)

\* the strings of a vector of VASTImportSymbol, from the i-th on
\* @src src/src/ast.c:3664-3689 v_ast_destroy_import_symbol
ImportSymbolStrings(items, i) ==
    Blocks("string", Cardinality({j \in i..Len(items) : items[j].name # NullString})
                     + Cardinality({j \in i..Len(items) : items[j].alias # NullString}))

\* The blocks the tree under a node holds: what each v_ast_new_* allocates
\* and what it is handed.
\* @src src/src/ast.c:3613-4363 v_ast_new_source .. v_ast_new_continue
Allocated(node) ==
    IF node = NULL THEN EmptyBag
    ELSE Blocks("node", 1) (+)
    CASE node.type = VASTNodeType_VASTSource -> AllocatedVector(node.decls)
      [] node.type = VASTNodeType_VASTImport ->
            StringBlock(node.name) (+) StringBlock(node.alias)
            (+) (IF node.symbols.null THEN EmptyBag
                 ELSE Blocks("vector", 1) (+) ImportSymbolStrings(node.symbols.items, 1))
      [] node.type = VASTNodeType_VASTClass ->
            StringBlock(node.name) (+) AllocatedVector(node.bases)
            (+) AllocatedVector(node.attributes) (+) AllocatedVector(node.functions)
            (+) AllocatedVector(node.decorators)
      [] node.type = VASTNodeType_VASTFunction ->
            StringBlock(node.name) (+) Allocated(node.body)
            (+) AllocatedVector(node.params) (+) AllocatedVector(node.decorators)
      [] node.type = VASTNodeType_VASTBody -> AllocatedVector(node.stmts)
      [] node.type = VASTNodeType_VASTFor ->
            Allocated(node.target) (+) Allocated(node.cond) (+) Allocated(node.body)
      [] node.type = VASTNodeType_VASTIf ->
            Allocated(node.condition) (+) Allocated(node.body) (+) Allocated(node.else_node)
      [] node.type = VASTNodeType_VASTReturn -> Allocated(node.value)
      [] node.type = VASTNodeType_VASTAssignment ->
            Allocated(node.target) (+) Allocated(node.value)
      [] node.type = VASTNodeType_VASTUnOp -> Allocated(node.operand)
      [] node.type = VASTNodeType_VASTBinOp -> Allocated(node.left) (+) Allocated(node.right)
      [] node.type = VASTNodeType_VASTTernOp ->
            Allocated(node.condition) (+) Allocated(node.if_expr) (+) Allocated(node.else_expr)
      [] node.type = VASTNodeType_VASTDecorator -> StringBlock(node.name)
      [] node.type = VASTNodeType_VASTAttribute ->
            StringBlock(node.name) (+) Allocated(node.initial_value)
      [] node.type = VASTNodeType_VASTSymbol -> StringBlock(node.name)
      [] node.type = VASTNodeType_VASTParameter ->
            StringBlock(node.name) (+) Allocated(node.default_value)
      [] node.type = VASTNodeType_VASTLiteral ->
            CASE node.lit_type = VType_String -> StringBlock(node.str_val)
              [] node.lit_type \in {VType_List, VType_Tuple, VType_Set}
                    -> AllocatedVector(node.elements)
              [] node.lit_type = VType_Dict
                    -> AllocatedVector(node.keys) (+) AllocatedVector(node.values)
              [] OTHER -> EmptyBag
      [] node.type = VASTNodeType_VASTFCall ->
            Allocated(node.callable) (+) AllocatedVector(node.args)
            (+) (IF node.kwargs.names.null THEN EmptyBag
                 ELSE Blocks("vector", 1) (+) Blocks("string", Len(node.kwargs.names.items)))
            (+) AllocatedVector(node.kwargs.values)
      [] node.type = VASTNodeType_VASTAttributeAccess ->
            Allocated(node.object) (+) StringBlock(node.attribute_name)
      [] node.type = VASTNodeType_VASTSubscript -> Allocated(node.value) (+) Allocated(node.slice)
      [] node.type = VASTNodeType_VASTSlice ->
            Allocated(node.start) (+) Allocated(node.stop) (+) Allocated(node.step)
      [] OTHER -> EmptyBag

RECURSIVE v_ast_destroy_node(_)
RECURSIVE v_ast_vector_free_callback(_, _)

\* vector_free_with_dtor's calls of the callback on the elements from the
\* i-th on: what they release
\* @src src/src/ast.c:26-31 v_ast_vector_free_callback
v_ast_vector_free_callback(items, i) ==
    IF i > Len(items) THEN EmptyBag
    ELSE v_ast_destroy_node(items[i]) (+) v_ast_vector_free_callback(items, i + 1)

\* vector_free_with_dtor(vec, v_ast_vector_free_callback): the elements'
\* release, then the vector's.  The callers that do not test the vector hand
\* it a null one for a call without keyword arguments; a null vector holds
\* no block.
\* @src src/src/ast.c:3655-3662 v_ast_destroy_source
vector_free_with_dtor(vec) ==
    IF vec.null THEN EmptyBag
    ELSE v_ast_vector_free_callback(vec.items, 1) (+) Blocks("vector", 1)

\* What v_ast_destroy_node(node) releases: the switch on the node's type and
\* the v_ast_destroy_* function of each case, each ending with free(node).
\* The cases of Pass, Break and Continue call nothing.
\* @src src/src/ast.c:3510-3593 v_ast_destroy_node
v_ast_destroy_node(node) ==
    IF node = NULL THEN EmptyBag
    ELSE
    CASE node.type = VASTNodeType_VASTSource ->
            vector_free_with_dtor(node.decls) (+) Blocks("node", 1)
      [] node.type = VASTNodeType_VASTImport ->
            StringBlock(node.name) (+) StringBlock(node.alias)
            (+) (IF node.symbols.null THEN EmptyBag
                 ELSE ImportSymbolStrings(node.symbols.items, 1) (+) Blocks("vector", 1))
            (+) Blocks("node", 1)
      [] node.type = VASTNodeType_VASTClass ->
            StringBlock(node.name) (+) vector_free_with_dtor(node.bases)
            (+) vector_free_with_dtor(node.attributes)
            (+) vector_free_with_dtor(node.functions)
            (+) vector_free_with_dtor(node.decorators) (+) Blocks("node", 1)
      [] node.type = VASTNodeType_VASTFunction ->
            StringBlock(node.name) (+) v_ast_destroy_node(node.body)
            (+) vector_free_with_dtor(node.params)
            (+) vector_free_with_dtor(node.decorators) (+) Blocks("node", 1)
      [] node.type = VASTNodeType_VASTBody ->
            vector_free_with_dtor(node.stmts) (+) Blocks("node", 1)
      [] node.type = VASTNodeType_VASTFor ->
            v_ast_destroy_node(node.target) (+) v_ast_destroy_node(node.cond)
            (+) v_ast_destroy_node(node.body) (+) Blocks("node", 1)
      [] node.type = VASTNodeType_VASTIf ->
            v_ast_destroy_node(node.condition) (+) v_ast_destroy_node(node.body)
            (+) v_ast_destroy_node(node.else_node) (+) Blocks("node", 1)
      [] node.type = VASTNodeType_VASTReturn ->
            v_ast_destroy_node(node.value) (+) Blocks("node", 1)
      [] node.type = VASTNodeType_VASTAssignment ->
            v_ast_destroy_node(node.target) (+) v_ast_destroy_node(node.value)
            (+) Blocks("node", 1)
      [] node.type = VASTNodeType_VASTUnOp ->
            v_ast_destroy_node(node.operand) (+) Blocks("node", 1)
      [] node.type = VASTNodeType_VASTBinOp ->
            v_ast_destroy_node(node.left) (+) v_ast_destroy_node(node.right)
            (+) Blocks("node", 1)
      [] node.type = VASTNodeType_VASTTernOp ->
            v_ast_destroy_node(node.condition) (+) v_ast_destroy_node(node.if_expr)
            (+) v_ast_destroy_node(node.else_expr) (+) Blocks("node", 1)
      [] node.type = VASTNodeType_VASTDecorator ->
            StringBlock(node.name) (+) Blocks("node", 1)
      [] node.type = VASTNodeType_VASTAttribute ->
            StringBlock(node.name) (+) Blocks("node", 1)
      [] node.type = VASTNodeType_VASTSymbol ->
            StringBlock(node.name) (+) Blocks("node", 1)
      [] node.type = VASTNodeType_VASTParameter ->
            StringBlock(node.name) (+) v_ast_destroy_node(node.default_value)
            (+) Blocks("node", 1)
      [] node.type = VASTNodeType_VASTLiteral ->
            (CASE node.lit_type = VType_String -> StringBlock(node.str_val)
               [] node.lit_type \in {VType_List, VType_Tuple, VType_Set}
                     -> vector_free_with_dtor(node.elements)
               [] node.lit_type = VType_Dict
                     -> vector_free_with_dtor(node.keys) (+) vector_free_with_dtor(node.values)
               [] OTHER -> EmptyBag)
            (+) Blocks("node", 1)
      [] node.type = VASTNodeType_VASTFCall ->
            v_ast_destroy_node(node.callable) (+) vector_free_with_dtor(node.args)
            (+) (IF node.kwargs.names.null THEN EmptyBag
                 ELSE Blocks("string", Len(node.kwargs.names.items)) (+) Blocks("vector", 1))
            (+) vector_free_with_dtor(node.kwargs.values) (+) Blocks("node", 1)
      [] node.type = VASTNodeType_VASTAttributeAccess ->
            v_ast_destroy_node(node.object) (+) StringBlock(node.attribute_name)
            (+) Blocks("node", 1)
      [] node.type = VASTNodeType_VASTSubscript ->
            v_ast_destroy_node(node.value) (+) v_ast_destroy_node(node.slice)
            (+) Blocks("node", 1)
      [] node.type = VASTNodeType_VASTSlice ->
            v_ast_destroy_node(node.start) (+) v_ast_destroy_node(node.stop)
            (+) v_ast_destroy_node(node.step) (+) Blocks("node", 1)
      [] node.type \in {VASTNodeType_VASTPass, VASTNodeType_VASTBreak,
                        VASTNodeType_VASTContinue} -> EmptyBag
      [] OTHER -> EmptyBag

\* What v_ast_destroy(ast) releases of the parse: the error string and what
\* v_ast_destroy_node(ast->root) releases.
\* @src src/src/ast.c:3595-3608 v_ast_destroy
v_ast_destroy(a) ==
    (IF a.error # NoError THEN Blocks("string", 1) ELSE EmptyBag) (+) v_ast_destroy_node(a.root)

\* a return that drops its last pointer to the blocks: they stay allocated
\* @src src/src/ast.c:1230-1235 v_parse_import
Abandon(p, blocks) == [p EXCEPT !.leaked = @ (+) blocks]
(***************************************************************************)
(* The parser.  The productions are written callee first.  A production    *)
(* that is called before it is defined, because the call closes a cycle of *)
(* the grammar, and the operand parser that v_parse_binary_op_left_assoc   *)
(* receives as a function pointer, are called through Call, which names    *)
(* the production and carries its arguments.                               *)
(***************************************************************************)

\* A local variable of a C function: value is computed once, where the
\* declaration stands, and the rest of the function body reads it.
\* @src src/src/ast.c:2210-2220 v_parse_ternary
Bind(value, rest(_)) == rest(value)

\* A local variable that holds the node of a production: when the node is
\* NULL the function returns NULL at once, and else the rest of its body runs.
\* @src src/src/ast.c:2214-2220 v_parse_ternary
Checked(value, rest(_)) == IF value.ok THEN rest(value) ELSE R(value.p, NULL)

RECURSIVE Call(_, _)

\* @src src/src/ast.c:1051-1083 v_parse_decorator
v_parse_decorator(p) ==
    LET a == v_parser_consume_delimiter(p, VDelimiter_At, "Expected \"@\" for decorator") IN
    IF a.tok = NullToken THEN R(a.p, NULL)
    ELSE LET name_token == v_parser_consume_kind(a.p, VTokenKind_Identifier,
                               "Expected decorator name after \"@\"") IN
    IF name_token.tok = NullToken THEN R(name_token.p, NULL)
    ELSE IF v_parser_check_delimiter(name_token.p, VDelimiter_LParen)
    THEN R(v_parser_set_error(name_token.p, "Decorator arguments not supported yet"), NULL)
    ELSE LET nl == v_parser_consume_kind(name_token.p, VTokenKind_Newline,
                       "Expected newline after decorator") IN
    IF nl.tok = NullToken THEN R(nl.p, NULL)
    ELSE R(nl.p, v_ast_new_decorator(TokenString(name_token.tok)))

\* The while loop of v_parse_decorators: [p, decorators], null on failure.
\* @src src/src/ast.c:1026-1046 v_parse_decorators
DecoratorsLoop(p, decorators) ==
    IF ~v_parser_check_delimiter(p, VDelimiter_At) THEN [p |-> p, decorators |-> decorators]
    ELSE Bind(v_parse_decorator(p), LAMBDA decorator :
    IF decorator.n = NULL THEN [p |-> decorator.p, decorators |-> NullVec]
    ELSE Call("DecoratorsLoop", <<decorator.p, vector_push_back(decorators, decorator.n)>>))

\* @src src/src/ast.c:1022-1049 v_parse_decorators
v_parse_decorators(p) == Call("DecoratorsLoop", <<p, NullVec>>)

\* The while(true) loop over the imported symbols: [p, symbols, ok].
\* @src src/src/ast.c:1214-1256 v_parse_import
ImportSymbolsLoop(p, symbols) ==
    IF v_parser_is_at_end(p) THEN [p |-> p, symbols |-> symbols, ok |-> TRUE]
    ELSE IF v_parser_check(p, VTokenKind_Newline)
    THEN [p |-> v_parser_advance(p), symbols |-> symbols, ok |-> TRUE]
    ELSE LET imp_name_token == v_parser_consume_kind(p, VTokenKind_Identifier,
                                   "Expected symbol") IN
    IF imp_name_token.tok = NullToken
    THEN [p |-> imp_name_token.p, symbols |-> NullVec, ok |-> FALSE]
    ELSE LET as_kw == v_parser_match_keyword(imp_name_token.p, VKeyword_As)
              imp_alias_token == IF as_kw.ok
                                THEN v_parser_consume_kind(as_kw.p, VTokenKind_Identifier,
                                                           "Expected symbol alias")
                                ELSE [p |-> as_kw.p, tok |-> NullToken] IN
    IF as_kw.ok /\ imp_alias_token.tok = NullToken
    THEN [p |-> Abandon(imp_alias_token.p,
                        ImportSymbolStrings(symbols.items, 1) (+) Blocks("vector", 1)),
          symbols |-> NullVec, ok |-> FALSE]
    ELSE LET sym == [name  |-> TokenString(imp_name_token.tok),
                     alias |-> IF as_kw.ok THEN TokenString(imp_alias_token.tok)
                               ELSE NullString]
              pushed == vector_push_back(symbols, sym)
              q == imp_alias_token.p IN
    IF v_parser_is_at_end(q) \/ ~v_parser_check_delimiter(q, VDelimiter_Comma)
    THEN [p |-> q, symbols |-> pushed, ok |-> TRUE]
    ELSE Call("ImportSymbolsLoop", <<v_parser_advance(q), pushed>>)

\* @src src/src/ast.c:1169-1267 v_parse_import
v_parse_import(p) ==
    IF v_parser_check_keyword(p, VKeyword_Import)
    THEN LET name_token == v_parser_consume_kind(v_parser_advance(p), VTokenKind_Identifier,
                                                 "Expected module name") IN
         IF name_token.tok = NullToken THEN R(name_token.p, NULL)
         ELSE LET as_kw == v_parser_match_keyword(name_token.p, VKeyword_As)
                   alias_token == IF as_kw.ok
                                 THEN v_parser_consume_kind(as_kw.p, VTokenKind_Identifier,
                                                            "Expected module alias")
                                 ELSE [p |-> as_kw.p, tok |-> NullToken] IN
         IF as_kw.ok /\ alias_token.tok = NullToken THEN R(alias_token.p, NULL)
         ELSE R(alias_token.p,
                v_ast_new_import(TokenString(name_token.tok),
                                 IF as_kw.ok THEN TokenString(alias_token.tok) ELSE NullString,
                                 NullVec))
    ELSE IF v_parser_check_keyword(p, VKeyword_From)
    THEN LET name_token == v_parser_consume_kind(v_parser_advance(p), VTokenKind_Identifier,
                                                 "Expected module name") IN
         IF name_token.tok = NullToken THEN R(name_token.p, NULL)
         ELSE LET i == v_parser_consume_keyword(name_token.p, VKeyword_Import,
                           "Expected \"import\"") IN
         IF i.tok = NullToken THEN R(i.p, NULL)
         ELSE Bind(Call("ImportSymbolsLoop", <<i.p, vector_new>>), LAMBDA l :
         IF ~l.ok THEN R(l.p, NULL)
         ELSE R(l.p, v_ast_new_import(TokenString(name_token.tok), NullString, l.symbols)))
    ELSE R(v_parser_set_error(p, "Expected \"import\" or \"from\" keyword"), NULL)

\* @src src/src/ast.c:2325-2330 v_parse_comparison
ComparatorOps ==
    {VOperator_ComparatorEquals, VOperator_ComparatorNotEquals,
     VOperator_ComparatorLessThan, VOperator_ComparatorLessEqualsThan,
     VOperator_ComparatorGreaterThan, VOperator_ComparatorGreaterEqualsThan}

\* The operator read after the left operand: [p, op, failed].
\* @src src/src/ast.c:2313-2373 v_parse_comparison
ComparisonOperator(p) ==
    LET token == v_parser_peek(p)
         none == [p |-> p, op |-> VOperator_Unknown, failed |-> FALSE]
    IN IF token.kind = VTokenKind_Operator
       THEN (IF token.type \in ComparatorOps
             THEN [p |-> v_parser_advance(p), op |-> token.type, failed |-> FALSE]
             ELSE none)
       ELSE IF token.kind = VTokenKind_Keyword
       THEN (IF token.type = VKeyword_Is
             THEN LET m == v_parser_match_keyword(v_parser_advance(p), VKeyword_Not)
                  IN [p |-> m.p, failed |-> FALSE,
                      op |-> IF m.ok THEN VOperator_IdentityIsNot ELSE VOperator_IdentityIs]
             ELSE IF token.type = VKeyword_In
             THEN [p |-> v_parser_advance(p), op |-> VOperator_MembershipIn, failed |-> FALSE]
             ELSE IF token.type = VKeyword_Not
             THEN LET c == v_parser_consume_keyword(v_parser_advance(p), VKeyword_In,
                               "Expected \"in\" after \"not\" for \"not in\" operator")
                  IN [p |-> c.p, failed |-> c.tok = NullToken,
                      op |-> IF c.tok = NullToken THEN VOperator_Unknown
                             ELSE VOperator_MembershipNotIn]
             ELSE none)
       ELSE none

\* @src src/src/ast.c:2386-2409 v_parse_comparison
ChainedComparison(p) ==
    LET next_token == v_parser_peek(p)
         next_op_kind == IF next_token.kind = VTokenKind_Operator THEN next_token.type
                        ELSE VOperator_Unknown
    IN /\ next_token # NullToken
       /\ next_token.kind \in {VTokenKind_Operator, VTokenKind_Keyword}
       /\ \/ next_op_kind \in {VOperator_ComparatorEquals, VOperator_ComparatorNotEquals}
          \/ v_parser_check_keyword(p, VKeyword_Is)
          \/ v_parser_check_keyword(p, VKeyword_In)
          \/ v_parser_check_keyword(p, VKeyword_Not)

\* a loop that takes everything after the operator as its right operand
RightAssocLoop(p, left, parse_operand, ops) ==
    LET token == v_parser_peek(p) IN
    IF token = NullToken \/ token.kind # VTokenKind_Operator THEN R(p, left)
    ELSE IF token.type \notin ops THEN R(p, left)
    ELSE LET r == Call("v_parse_binary_op_left_assoc", <<v_parser_advance(p), parse_operand, ops>>) IN
    IF r.ok THEN R(r.p, v_ast_new_binop(token.type, left, r.n)) ELSE R(r.p, NULL)

\* the while(true) loop of v_parse_binary_op_left_assoc
\* @src src/src/ast.c:2433-2470 v_parse_binary_op_left_assoc
LeftAssocLoop(p, left, parse_operand, ops) ==
    LET token == v_parser_peek(p) IN
    IF token = NullToken \/ token.kind # VTokenKind_Operator THEN R(p, left)
    ELSE IF token.type \notin ops THEN R(p, left)
    ELSE LET r == Call(parse_operand, <<v_parser_advance(p)>>) IN
    IF r.ok
    THEN Call("LeftAssocLoop", <<r.p, v_ast_new_binop(token.type, left, r.n), parse_operand, ops>>)
    ELSE R(r.p, NULL)

\* @src src/src/ast.c:2421-2473 v_parse_binary_op_left_assoc
v_parse_binary_op_left_assoc(p, parse_operand, ops) ==
    LET l == Call(parse_operand, <<p>>) IN
    IF l.ok THEN LeftAssocLoop(l.p, l.n, parse_operand, ops) ELSE R(l.p, NULL)

\* @src src/src/ast.c:2475-2479 v_parse_bitwise_or
v_parse_bitwise_or(p) ==
    v_parse_binary_op_left_assoc(p, "v_parse_bitwise_xor", {VOperator_BitwiseOr})

\* @src src/src/ast.c:2302-2415 v_parse_comparison
v_parse_comparison(p) ==
    Checked(v_parse_bitwise_or(p), LAMBDA l :
    IF v_parser_peek(l.p) = NullToken THEN l
    ELSE Bind(ComparisonOperator(l.p), LAMBDA o :
    IF o.failed THEN R(o.p, NULL)
    ELSE IF o.op = VOperator_Unknown THEN R(o.p, l.n)
    ELSE Checked(v_parse_bitwise_or(o.p), LAMBDA r :
    IF ChainedComparison(r.p)
    THEN R(v_parser_set_error(r.p, "Chained comparisons not fully supported yet"), NULL)
    ELSE R(r.p, v_ast_new_binop(o.op, l.n, r.n)))))

\* the while loop of v_parse_logical_and
\* @src src/src/ast.c:2287-2298 v_parse_logical_and
LogicalAndLoop(p, left) ==
    LET m == v_parser_match_keyword(p, VKeyword_And) IN
    IF ~m.ok THEN R(p, left)
    ELSE Checked(v_parse_comparison(m.p), LAMBDA r :
    Call("LogicalAndLoop", <<r.p, v_ast_new_binop(VOperator_LogicalAnd, left, r.n)>>))

\* @src src/src/ast.c:2278-2300 v_parse_logical_and
v_parse_logical_and(p) ==
    Checked(v_parse_comparison(p), LAMBDA l :
    Call("LogicalAndLoop", <<l.p, l.n>>))

\* the while loop of v_parse_logical_or
\* @src src/src/ast.c:2262-2273 v_parse_logical_or
LogicalOrLoop(p, left) ==
    LET m == v_parser_match_keyword(p, VKeyword_Or) IN
    IF ~m.ok THEN R(p, left)
    ELSE Checked(v_parse_logical_and(m.p), LAMBDA r :
    Call("LogicalOrLoop", <<r.p, v_ast_new_binop(VOperator_LogicalOr, left, r.n)>>))

\* @src src/src/ast.c:2253-2276 v_parse_logical_or
v_parse_logical_or(p) ==
    Checked(v_parse_logical_and(p), LAMBDA l :
    Call("LogicalOrLoop", <<l.p, l.n>>))

\* @src src/src/ast.c:2210-2251 v_parse_ternary
v_parse_ternary(p) ==
    Checked(v_parse_logical_or(p), LAMBDA t :
    LET m == v_parser_match_keyword(t.p, VKeyword_If) IN
    IF ~m.ok THEN t
    ELSE Checked(v_parse_logical_or(m.p), LAMBDA c :
    LET e == v_parser_consume_keyword(c.p, VKeyword_Else,
                      "Expected \"else\" after \"if\" in ternary expression") IN
    IF e.tok = NullToken THEN R(e.p, NULL)
    ELSE Checked(Call("v_parse_expression", <<e.p>>), LAMBDA f :
    R(f.p, v_ast_new_ternop(c.n, t.n, f.n)))))

\* @src src/src/ast.c:2198-2208 v_parse_expression
v_parse_expression(p) ==
    IF v_parser_check_keyword(p, VKeyword_Lambda)
    THEN R(v_parser_set_error(p, "Lambda expressions not implemented yet"), NULL)
    ELSE v_parse_ternary(p)

\* The do-while loop over the base classes: [p, bases, ok].
\* @src src/src/ast.c:1291-1314 v_parse_class_declaration
BasesLoop(p, bases) ==
    Bind(v_parse_expression(p), LAMBDA base_expr :
    IF base_expr.n = NULL THEN [p |-> base_expr.p, bases |-> NullVec, ok |-> FALSE]
    ELSE LET pushed == vector_push_back(bases, base_expr.n)
              m == v_parser_match_delimiter(base_expr.p, VDelimiter_Comma) IN
    IF m.ok THEN Call("BasesLoop", <<m.p, pushed>>)
    ELSE [p |-> base_expr.p, bases |-> pushed, ok |-> TRUE])

\* The base classes between the parentheses, when there are parentheses:
\* [p, bases, ok].
\* @src src/src/ast.c:1285-1330 v_parse_class_declaration
ClassBases(p) ==
    LET o == v_parser_match_delimiter(p, VDelimiter_LParen) IN
    IF ~o.ok THEN [p |-> p, bases |-> NullVec, ok |-> TRUE]
    ELSE Bind(IF ~v_parser_check_delimiter(o.p, VDelimiter_RParen)
                  THEN Call("BasesLoop", <<o.p, NullVec>>)
                  ELSE [p |-> o.p, bases |-> NullVec, ok |-> TRUE], LAMBDA l :
    IF ~l.ok THEN l
    ELSE LET c == v_parser_consume_delimiter(l.p, VDelimiter_RParen,
                      "Expected \")\" after base classes") IN
    [p |-> c.p, bases |-> l.bases, ok |-> c.tok # NullToken])

\* while(v_parser_match(parser, VTokenKind_Newline)) continue;
\* @src src/src/ast.c:1625-1628 v_parse_statement
SkipNewlines(p) ==
    LET m == v_parser_match(p, VTokenKind_Newline) IN
    IF m.ok THEN Call("SkipNewlines", <<m.p>>) ELSE p

\* vector_push_back(decorators, decorator) hands over the node itself where the
\* other calls hand over the address of the pointer: the element stored is the
\* leading bytes of the node instead of a pointer to it.
\* @src src/src/ast.c:1658-1659 v_parse_statement
NodeBytes(node) == [bytes_of |-> node]

\* The result is [p, type].  When the cursor is on the EOF token type_token is
\* null and the else branch reads its kind and type through it.
\* @src src/src/ast.c:3329-3372 v_parse_type_annotation
v_parse_type_annotation(p) ==
    LET type_token == v_parser_peek(p) IN
    IF type_token # NullToken /\ type_token.kind = VTokenKind_Identifier
    THEN LET q == v_parser_advance(p)
              type == v_string_to_type(type_token.start) IN
         IF v_parser_check_delimiter(q, VDelimiter_LBracket)
         THEN [p |-> v_parser_set_error(q, "Generic types (e.g., list[int]) not fully supported in type annotations yet"),
               type |-> VType_Unknown]
         ELSE IF type = VType_Unknown THEN [p |-> q, type |-> VType_Object]
         ELSE [p |-> q, type |-> type]
    ELSE LET read == IF type_token = NullToken THEN p.garbage ELSE type_token
              q == IF type_token = NullToken THEN [p EXCEPT !.ub = TRUE] ELSE p IN
         IF read.kind = VTokenKind_Literal /\ read.type = VLiteral_String
         THEN [p |-> v_parser_set_error(q, "String literal type hints (forward references) not supported yet"),
               type |-> VType_Unknown]
         ELSE [p |-> v_parser_set_error(q, "Expected type name (identifier) after \":\" or \"->\""),
               type |-> VType_Unknown]

\* a loop that takes a parameter without a default value wherever it stands
ParameterLoopInAnyOrder(p, params, parsing_defaults) ==
    LET fail(q) == [p |-> q, params |-> NullVec, ok |-> FALSE] IN
    IF v_parser_check_delimiter(p, VDelimiter_RParen)
    THEN [p |-> p, params |-> params, ok |-> TRUE]
    ELSE LET param_token == v_parser_consume_kind(p, VTokenKind_Identifier,
                                "Expected parameter name") IN
    IF param_token.tok = NullToken THEN fail(param_token.p)
    ELSE LET colon == v_parser_match_delimiter(param_token.p, VDelimiter_Colon)
             IN Bind(IF colon.ok THEN v_parse_type_annotation(colon.p)
                  ELSE [p |-> colon.p, type |-> VType_Unknown], LAMBDA t :
    IF colon.ok /\ t.p.error # NoError THEN fail(t.p)
    ELSE LET assign == v_parser_match_operator(t.p, VOperator_Assign)
             IN Bind(IF assign.ok THEN Call("v_parse_expression", <<assign.p>>)
                              ELSE R(assign.p, NULL), LAMBDA default_value :
    IF assign.ok /\ default_value.n = NULL THEN fail(default_value.p)
    ELSE LET param_node == v_ast_new_argument(TokenString(param_token.tok), t.type,
                                              default_value.n)
              pushed == vector_push_back(params, param_node)
              comma == v_parser_match_delimiter(default_value.p, VDelimiter_Comma) IN
    IF comma.ok THEN Call("ParameterLoop", <<comma.p, pushed, parsing_defaults \/ assign.ok>>)
    ELSE IF ~v_parser_check_delimiter(default_value.p, VDelimiter_RParen)
    THEN fail(v_parser_set_error(default_value.p,
                                 "Expected \",\" or \")\" in parameter list"))
    ELSE [p |-> default_value.p, params |-> pushed, ok |-> TRUE]))

\* The do-while loop of v_parse_parameter_list: [p, params, ok].
\* @src src/src/ast.c:3390-3469 v_parse_parameter_list
ParameterLoop(p, params, parsing_defaults) ==
    LET fail(q) == [p |-> q, params |-> NullVec, ok |-> FALSE] IN
    IF v_parser_check_delimiter(p, VDelimiter_RParen)
    THEN [p |-> p, params |-> params, ok |-> TRUE]
    ELSE LET param_token == v_parser_consume_kind(p, VTokenKind_Identifier,
                                "Expected parameter name") IN
    IF param_token.tok = NullToken THEN fail(param_token.p)
    ELSE LET colon == v_parser_match_delimiter(param_token.p, VDelimiter_Colon)
             IN Bind(IF colon.ok THEN v_parse_type_annotation(colon.p)
                  ELSE [p |-> colon.p, type |-> VType_Unknown], LAMBDA t :
    IF colon.ok /\ t.p.error # NoError THEN fail(t.p)
    ELSE LET assign == v_parser_match_operator(t.p, VOperator_Assign)
             IN Bind(IF assign.ok THEN v_parse_expression(assign.p)
                              ELSE R(assign.p, NULL), LAMBDA default_value :
    IF assign.ok /\ default_value.n = NULL THEN fail(default_value.p)
    ELSE IF ~assign.ok /\ parsing_defaults
    THEN fail(v_parser_set_error(assign.p, "Non-default argument follows default argument"))
    ELSE LET param_node == v_ast_new_argument(TokenString(param_token.tok), t.type,
                                              default_value.n)
              pushed == vector_push_back(params, param_node)
              comma == v_parser_match_delimiter(default_value.p, VDelimiter_Comma) IN
    IF comma.ok THEN Call("ParameterLoop", <<comma.p, pushed, parsing_defaults \/ assign.ok>>)
    ELSE IF ~v_parser_check_delimiter(default_value.p, VDelimiter_RParen)
    THEN fail(v_parser_set_error(default_value.p,
                                 "Expected \",\" or \")\" in parameter list"))
    ELSE [p |-> default_value.p, params |-> pushed, ok |-> TRUE]))

\* The result is [p, params], params null when the function returned NULL.
\* @src src/src/ast.c:3374-3481 v_parse_parameter_list
v_parse_parameter_list(p) ==
    LET o == v_parser_consume_delimiter(p, VDelimiter_LParen,
                 "Expected \"(\" to start parameter list") IN
    IF o.tok = NullToken THEN [p |-> o.p, params |-> NullVec]
    ELSE Bind(Call("ParameterLoop", <<o.p, vector_new, FALSE>>), LAMBDA l :
    IF ~l.ok THEN [p |-> l.p, params |-> NullVec]
    ELSE LET c == v_parser_consume_delimiter(l.p, VDelimiter_RParen,
                      "Expected \")\" to end parameter list") IN
    IF c.tok = NullToken THEN [p |-> c.p, params |-> NullVec]
    ELSE [p |-> c.p, params |-> l.params])

\* @src src/src/ast.c:1491-1559 v_parse_function_declaration
v_parse_function_declaration(p) ==
    LET k == v_parser_consume_keyword(p, VKeyword_Def, "Expected \"def\" keyword") IN
    IF k.tok = NullToken THEN R(k.p, NULL)
    ELSE LET name_token == v_parser_consume_kind(k.p, VTokenKind_Identifier,
                               "Expected function name") IN
    IF name_token.tok = NullToken THEN R(name_token.p, NULL)
    ELSE Bind(v_parse_parameter_list(name_token.p), LAMBDA params :
    IF params.params.null THEN R(params.p, NULL)
    ELSE LET arrow == v_parser_match_delimiter(params.p, VDelimiter_RightArrow)
             IN Bind(IF arrow.ok THEN v_parse_type_annotation(arrow.p)
                            ELSE [p |-> arrow.p, type |-> VType_Unknown], LAMBDA return_type :
    IF arrow.ok /\ return_type.p.error # NoError THEN R(return_type.p, NULL)
    ELSE LET c == v_parser_consume_delimiter(return_type.p, VDelimiter_Colon,
                      "Expected \":\" after function signature") IN
    IF c.tok = NullToken THEN R(c.p, NULL)
    ELSE Checked(Call("v_parse_body", <<c.p>>), LAMBDA body_node :
    IF body_node.n.type # VASTNodeType_VASTBody
    THEN R(v_parser_set_error(body_node.p,
               "Internal error: Function body parsing did not return VASTBody"), NULL)
    ELSE R(body_node.p, v_ast_new_function(TokenString(name_token.tok), params.params,
                                           return_type.type, body_node.n)))))

\* a decorator met by v_parse_statement, and the definition after it
\* @src src/src/ast.c:1642-1697 v_parse_statement
DecoratedStatement(p) ==
    Checked(v_parse_decorator(p), LAMBDA decorator :
    IF v_parser_check_keyword(decorator.p, VKeyword_Def)
    THEN Bind(Call("v_parse_function_declaration", <<decorator.p>>), LAMBDA function :
         IF function.n # NULL
         THEN R(function.p, [function.n EXCEPT
                    !.decorators = vector_push_back(vector_new, NodeBytes(decorator.n))])
         ELSE function)
    ELSE IF v_parser_check_keyword(decorator.p, VKeyword_Class)
    THEN Bind(Call("v_parse_class_declaration", <<decorator.p>>), LAMBDA class :
         IF class.n # NULL
         THEN R(class.p, [class.n EXCEPT
                    !.decorators = vector_push_back(vector_new, NodeBytes(decorator.n))])
         ELSE class)
    ELSE R(v_parser_set_error(decorator.p,
               "Expecting function or class definition after decorator"), NULL))

\* @src src/src/ast.c:2144-2166 v_parse_return_statement
v_parse_return_statement(p) ==
    LET c == v_parser_consume_keyword(p, VKeyword_Return, "Expected \"return\" keyword") IN
    IF c.tok = NullToken THEN R(c.p, NULL)
    ELSE IF /\ ~v_parser_check(c.p, VTokenKind_Newline)
            /\ ~v_parser_check_delimiter(c.p, VDelimiter_SemiColon)
            /\ ~v_parser_check(c.p, VTokenKind_Dedent)
            /\ ~v_parser_is_at_end(c.p)
    THEN Checked(v_parse_expression(c.p), LAMBDA value :
         R(value.p, v_ast_new_return(value.n)))
    ELSE R(c.p, v_ast_new_return(NULL))

\* @src src/src/ast.c:2168-2176 v_parse_pass_statement
v_parse_pass_statement(p) ==
    LET c == v_parser_consume_keyword(p, VKeyword_Pass, "Expected \"pass\" keyword") IN
    IF c.tok = NullToken THEN R(c.p, NULL) ELSE R(c.p, v_ast_new_pass)

\* @src src/src/ast.c:2178-2186 v_parse_break_statement
v_parse_break_statement(p) ==
    LET c == v_parser_consume_keyword(p, VKeyword_Break, "Expected \"break\" keyword") IN
    IF c.tok = NullToken THEN R(c.p, NULL) ELSE R(c.p, v_ast_new_break)

\* @src src/src/ast.c:2188-2196 v_parse_continue_statement
v_parse_continue_statement(p) ==
    LET c == v_parser_consume_keyword(p, VKeyword_Continue,
                 "Expected \"continue\" keyword") IN
    IF c.tok = NullToken THEN R(c.p, NULL) ELSE R(c.p, v_ast_new_continue)

\* the value after the assignment operator
\* @src src/src/ast.c:1884-1900 v_parse_expression_statement
AssignmentValue(p, expr, assign_op, target_type) ==
    IF assign_op # VOperator_Unknown
    THEN Checked(v_parse_expression(p), LAMBDA value :
         R(value.p, v_ast_new_assignment(expr, value.n, assign_op, target_type)))
    ELSE R(p, expr)

\* @src src/src/ast.c:1852-1877 v_parse_expression_statement
AssignOps ==
    {VOperator_Assign, VOperator_AdditionAssign, VOperator_SubtractionAssign,
     VOperator_MultiplicationAssign, VOperator_DivisionAssign, VOperator_ModulusAssign,
     VOperator_FloorDivisionAssign, VOperator_ExponentiationAssign,
     VOperator_BitwiseAndAssign, VOperator_BitwiseOrAssign, VOperator_BitwiseXorAssign,
     VOperator_BitwiseLShiftAssign, VOperator_BitwiseRShiftAssign}

\* @src src/src/ast.c:1800-1901 v_parse_expression_statement
v_parse_expression_statement(p) ==
    Checked(v_parse_expression(p), LAMBDA expr :
    LET colon == v_parser_match_delimiter(expr.p, VDelimiter_Colon) IN
    IF colon.ok
    THEN IF expr.n.type \notin {VASTNodeType_VASTSymbol, VASTNodeType_VASTAttributeAccess,
                                VASTNodeType_VASTSubscript}
         THEN R(v_parser_set_error(colon.p, "Annotated assignment target must be a variable, attribute, or subscript"),
                NULL)
         ELSE Bind(v_parse_type_annotation(colon.p), LAMBDA t :
         IF t.p.error # NoError THEN R(t.p, NULL)
         ELSE LET m == v_parser_match_operator(t.p, VOperator_Assign) IN
         IF m.ok THEN AssignmentValue(m.p, expr.n, VOperator_Assign, t.type)
         ELSE R(v_parser_set_error(t.p, "Expected \"=\" after type annotation in statement"),
                NULL))
    ELSE LET token == v_parser_peek(colon.p) IN
         IF token.kind = VTokenKind_Operator /\ token.type \in AssignOps
         THEN AssignmentValue(v_parser_advance(colon.p), expr.n, token.type, VType_Unknown)
         ELSE AssignmentValue(colon.p, expr.n, VOperator_Unknown, VType_Unknown))

\* @src src/src/ast.c:1772-1798 v_parse_simple_statement
v_parse_simple_statement(p) ==
    CASE v_parser_check_keyword(p, VKeyword_Return) -> v_parse_return_statement(p)
      [] v_parser_check_keyword(p, VKeyword_Pass) -> v_parse_pass_statement(p)
      [] v_parser_check_keyword(p, VKeyword_Break) -> v_parse_break_statement(p)
      [] v_parser_check_keyword(p, VKeyword_Continue) -> v_parse_continue_statement(p)
      [] OTHER -> v_parse_expression_statement(p)

\* the end of a simple statement
\* @src src/src/ast.c:1701-1737 v_parse_statement
SimpleStatementEnd(p, stmt) ==
    IF v_parser_check_delimiter(p, VDelimiter_SemiColon)
    THEN R(v_parser_set_error(v_parser_advance(p), "Multiple statements on one line (using \";\") not fully supported yet"),
           NULL)
    ELSE IF v_parser_is_at_end(p) THEN R(p, stmt)
    ELSE IF v_parser_check(p, VTokenKind_Newline) THEN R(v_parser_advance(p), stmt)
    ELSE IF v_parser_check(p, VTokenKind_Dedent) THEN R(p, stmt)
    ELSE R(v_parser_set_error(p, "Expected newline or end of block after simple statement"),
           NULL)

\* a store into the else_node of the first elif, wherever the chain ends
StoreElseAtHead(else_node, depth, node) == [else_node EXCEPT !.else_node = node]

\* ((VASTIf*)current_if_else_chain_end)->else_node = node, the chain end being
\* the If that is depth links below else_node
\* @src src/src/ast.c:1995-1998 v_parse_if_statement
StoreElse(else_node, depth, node) ==
    IF depth = 0 THEN [else_node EXCEPT !.else_node = node]
    ELSE [else_node EXCEPT !.else_node = Call("StoreElse", <<else_node.else_node, depth - 1, node>>)]

\* the else clause and the construction of the If node
\* @src src/src/ast.c:2002-2044 v_parse_if_statement
ElseClause(p, condition, body_node, else_node, current_if_else_chain_end) ==
    LET m == v_parser_match_keyword(p, VKeyword_Else) IN
    IF ~m.ok THEN R(p, v_ast_new_if(condition, body_node, else_node))
    ELSE LET c == v_parser_consume_delimiter(m.p, VDelimiter_Colon,
                      "Expected \":\" after else keyword") IN
    IF c.tok = NullToken THEN R(c.p, NULL)
    ELSE Checked(Call("v_parse_body", <<c.p>>), LAMBDA final_else_body :
    IF final_else_body.n.type # VASTNodeType_VASTBody
    THEN R(v_parser_set_error(final_else_body.p, "Internal error while parsing else block"),
           NULL)
    ELSE IF else_node = NULL
    THEN R(final_else_body.p, v_ast_new_if(condition, body_node, final_else_body.n))
    ELSE R(final_else_body.p,
           v_ast_new_if(condition, body_node,
                        StoreElse(else_node, current_if_else_chain_end, final_else_body.n))))

\* The elif loop: [p, else_node, current_if_else_chain_end, ok]; the chain end
\* is held as its distance below else_node.
\* @src src/src/ast.c:1940-2000 v_parse_if_statement
ElifLoop(p, else_node, current_if_else_chain_end) ==
    LET m == v_parser_match_keyword(p, VKeyword_Elif)
         fail(q) == [p |-> q, else_node |-> NULL, current_if_else_chain_end |-> 0,
                    ok |-> FALSE] IN
    IF ~m.ok THEN [p |-> p, else_node |-> else_node,
                   current_if_else_chain_end |-> current_if_else_chain_end, ok |-> TRUE]
    ELSE Bind(v_parse_expression(m.p), LAMBDA elif_condition :
    IF elif_condition.n = NULL THEN fail(elif_condition.p)
    ELSE LET c == v_parser_consume_delimiter(elif_condition.p, VDelimiter_Colon,
                      "Expected \":\" after elif condition") IN
    IF c.tok = NullToken THEN fail(c.p)
    ELSE Bind(Call("v_parse_body", <<c.p>>), LAMBDA elif_body_node :
    IF elif_body_node.n = NULL THEN fail(elif_body_node.p)
    ELSE IF elif_body_node.n.type # VASTNodeType_VASTBody
    THEN fail(v_parser_set_error(elif_body_node.p, "Internal error while parsing elif block"))
    ELSE LET new_elif_if_node == v_ast_new_if(elif_condition.n, elif_body_node.n, NULL) IN
    IF else_node = NULL
    THEN Call("ElifLoop", <<elif_body_node.p, new_elif_if_node, 0>>)
    ELSE Call("ElifLoop", <<elif_body_node.p,
                  Call("StoreElse", <<else_node, current_if_else_chain_end, new_elif_if_node>>),
                  current_if_else_chain_end + 1>>)))

\* @src src/src/ast.c:1903-2045 v_parse_if_statement
v_parse_if_statement(p) ==
    LET k == v_parser_consume_keyword(p, VKeyword_If, "Expected \"if\" keyword") IN
    IF k.tok = NullToken THEN R(k.p, NULL)
    ELSE Checked(v_parse_expression(k.p), LAMBDA condition :
    LET c == v_parser_consume_delimiter(condition.p, VDelimiter_Colon,
                      "Expected \":\" after if condition") IN
    IF c.tok = NullToken THEN R(c.p, NULL)
    ELSE Checked(Call("v_parse_body", <<c.p>>), LAMBDA body_node :
    IF body_node.n.type # VASTNodeType_VASTBody THEN R(body_node.p, NULL)
    ELSE LET e == ElifLoop(body_node.p, NULL, 0) IN
    IF ~e.ok THEN R(e.p, NULL)
    ELSE ElseClause(e.p, condition.n, body_node.n, e.else_node, e.current_if_else_chain_end)))

\* @src src/src/ast.c:2047-2102 v_parse_for_statement
v_parse_for_statement(p) ==
    LET k == v_parser_consume_keyword(p, VKeyword_For, "Expected \"for\" keyword") IN
    IF k.tok = NullToken THEN R(k.p, NULL)
    ELSE Checked(v_parse_expression(k.p), LAMBDA target :
    LET i == v_parser_consume_keyword(target.p, VKeyword_In,
                      "Expected \"in\" keyword after for target") IN
    IF i.tok = NullToken THEN R(i.p, NULL)
    ELSE Checked(v_parse_expression(i.p), LAMBDA iterable :
    LET c == v_parser_consume_delimiter(iterable.p, VDelimiter_Colon,
                      "Expected \":\" after for statement header") IN
    IF c.tok = NullToken THEN R(c.p, NULL)
    ELSE Checked(Call("v_parse_body", <<c.p>>), LAMBDA body_node :
    IF body_node.n.type # VASTNodeType_VASTBody
    THEN R(v_parser_set_error(body_node.p, "Internal error while parsing for block"), NULL)
    ELSE R(body_node.p, v_ast_new_for(FALSE, target.n, iterable.n, body_node.n)))))

\* @src src/src/ast.c:2104-2142 v_parse_while_statement
v_parse_while_statement(p) ==
    LET k == v_parser_consume_keyword(p, VKeyword_While, "Expected \"while\" keyword") IN
    IF k.tok = NullToken THEN R(k.p, NULL)
    ELSE Checked(v_parse_expression(k.p), LAMBDA condition :
    LET c == v_parser_consume_delimiter(condition.p, VDelimiter_Colon,
                      "Expected \":\" after while condition") IN
    IF c.tok = NullToken THEN R(c.p, NULL)
    ELSE Checked(Call("v_parse_body", <<c.p>>), LAMBDA body_node :
    IF body_node.n.type # VASTNodeType_VASTBody
    THEN R(v_parser_set_error(body_node.p, "Internal error while parsing while block"), NULL)
    ELSE R(body_node.p, v_ast_new_for(TRUE, NULL, condition.n, body_node.n))))

\* @src src/src/ast.c:1741-1770 v_parse_compound_statement
v_parse_compound_statement(p) ==
    IF v_parser_check_keyword(p, VKeyword_If) THEN v_parse_if_statement(p)
    ELSE IF v_parser_check_keyword(p, VKeyword_For) THEN v_parse_for_statement(p)
    ELSE IF v_parser_check_keyword(p, VKeyword_While) THEN v_parse_while_statement(p)
    ELSE IF v_parser_check_keyword(p, VKeyword_Def) THEN Call("v_parse_function_declaration", <<p>>)
    ELSE IF v_parser_check_keyword(p, VKeyword_Class) THEN Call("v_parse_class_declaration", <<p>>)
    ELSE R(v_parser_set_error(p, "Internal error: Unhandled compound statement"), NULL)

\* @src src/src/ast.c:1623-1739 v_parse_statement
v_parse_statement(p0) ==
    LET p == Call("SkipNewlines", <<p0>>) IN
    CASE \E k \in {VKeyword_If, VKeyword_For, VKeyword_While, VKeyword_Class, VKeyword_Def,
                   VKeyword_With, VKeyword_Try} : v_parser_check_keyword(p, k)
           -> v_parse_compound_statement(p)
      [] v_parser_check_delimiter(p, VDelimiter_At) -> DecoratedStatement(p)
      [] OTHER -> Checked(v_parse_simple_statement(p), LAMBDA stmt :
                  SimpleStatementEnd(stmt.p, stmt.n))

\* The statement loop of v_parse_body: [p, stmts, ok].
\* @src src/src/ast.c:1581-1604 v_parse_body
BodyLoop(p0, stmts) ==
    IF v_parser_check(p0, VTokenKind_Dedent) \/ v_parser_is_at_end(p0)
    THEN [p |-> p0, stmts |-> stmts, ok |-> TRUE]
    ELSE LET p == Call("SkipNewlines", <<p0>>) IN
    IF v_parser_check(p, VTokenKind_Dedent) \/ v_parser_is_at_end(p)
    THEN [p |-> p, stmts |-> stmts, ok |-> TRUE]
    ELSE LET stmt == Call("v_parse_statement", <<p>>) IN
    IF stmt.n = NULL THEN [p |-> stmt.p, stmts |-> NullVec, ok |-> FALSE]
    ELSE Call("BodyLoop", <<stmt.p, vector_push_back(stmts, stmt.n)>>)

\* @src src/src/ast.c:1561-1621 v_parse_body
v_parse_body(p) ==
    LET nl == v_parser_consume_kind(p, VTokenKind_Newline,
                  "Expected newline after \":\" before block") IN
    IF nl.tok = NullToken THEN R(nl.p, NULL)
    ELSE LET ind == v_parser_consume_kind(Call("SkipNewlines", <<nl.p>>), VTokenKind_Indent,
                        "Expected indent to start block") IN
    IF ind.tok = NullToken THEN R(ind.p, NULL)
    ELSE LET b == BodyLoop(ind.p, vector_new) IN
    IF ~b.ok THEN R(b.p, NULL)
    ELSE IF v_parser_is_at_end(b.p) THEN R(b.p, v_ast_new_body(b.stmts))
    ELSE LET d == v_parser_consume_kind(b.p, VTokenKind_Dedent,
                      "Expecting dedent at end of block") IN
    IF d.tok = NullToken THEN R(d.p, NULL) ELSE R(d.p, v_ast_new_body(b.stmts))

\* The loop over the statements of the class body from index i on:
\* [p, attributes, functions, ok].  A nested class met while attributes is
\* still null is pushed through the null vector.
\* @src src/src/ast.c:1379-1482 v_parse_class_declaration
ClassMembers(p, stmts, i, attributes, functions) ==
    LET fail(q) == [p |-> q, attributes |-> NullVec, functions |-> NullVec, ok |-> FALSE] IN
    IF i > Len(stmts)
    THEN [p |-> p, attributes |-> attributes, functions |-> functions, ok |-> TRUE]
    ELSE LET stmt == stmts[i] IN
    IF stmt.type = VASTNodeType_VASTFunction
    THEN Call("ClassMembers", <<p, stmts, i + 1, attributes, vector_push_back(functions, stmt)>>)
    ELSE IF stmt.type = VASTNodeType_VASTAssignment
    THEN IF stmt.target.type = VASTNodeType_VASTSymbol
         THEN Call("ClassMembers", <<p, stmts, i + 1,
                           vector_push_back(attributes,
                               v_ast_new_attribute(stmt.target.name, stmt.vtype, stmt.value)),
                           functions>>)
         ELSE fail(v_parser_set_error(p, "Complex assignment target not allowed directly in class body (use methods)"))
    ELSE IF stmt.type = VASTNodeType_VASTClass
    THEN IF attributes.null
         THEN Call("ClassMembers", <<[p EXCEPT !.ub = TRUE], stmts, i + 1, attributes, functions>>)
         ELSE Call("ClassMembers", <<p, stmts, i + 1, vector_push_back(attributes, stmt), functions>>)
    ELSE IF stmt.type = VASTNodeType_VASTPass
    THEN Call("ClassMembers", <<p, stmts, i + 1, attributes, functions>>)
    ELSE IF stmt.type = VASTNodeType_VASTLiteral /\ stmt.lit_type = VType_String
    THEN Call("ClassMembers", <<p, stmts, i + 1, attributes, functions>>)
    ELSE fail(v_parser_set_error(p, "Unexpected statement type found directly in class body"))

\* @src src/src/ast.c:1269-1489 v_parse_class_declaration
v_parse_class_declaration(p) ==
    LET k == v_parser_consume_keyword(p, VKeyword_Class, "Expected \"class\" keyword") IN
    IF k.tok = NullToken THEN R(k.p, NULL)
    ELSE LET name_token == v_parser_consume_kind(k.p, VTokenKind_Identifier,
                               "Expected class name") IN
    IF name_token.tok = NullToken THEN R(name_token.p, NULL)
    ELSE Bind(ClassBases(name_token.p), LAMBDA b :
    IF ~b.ok THEN R(b.p, NULL)
    ELSE LET c == v_parser_consume_delimiter(b.p, VDelimiter_Colon,
                      "Expected \":\" after class definition header") IN
    IF c.tok = NullToken THEN R(c.p, NULL)
    ELSE Checked(Call("v_parse_body", <<c.p>>), LAMBDA body_node :
    IF body_node.n.type # VASTNodeType_VASTBody
    THEN R(v_parser_set_error(body_node.p,
               "Internal error: Class body parsing did not return VASTBody"), NULL)
    ELSE Bind(Call("ClassMembers", <<body_node.p, body_node.n.stmts.items, 1, NullVec, NullVec>>), LAMBDA m :
    IF ~m.ok THEN R(m.p, NULL)
    ELSE R(m.p, v_ast_new_class(TokenString(name_token.tok), b.bases, m.attributes,
                                m.functions)))))

\* @src src/src/ast.c:1085-1167 v_parse_declaration
v_parse_declaration(p) ==
    LET d == v_parse_decorators(p) IN
    CASE d.p.error # NoError -> R(d.p, NULL)
      [] /\ d.p.error = NoError
         /\ ~d.decorators.null
         /\ ~v_parser_check_keyword(d.p, VKeyword_Class)
         /\ ~v_parser_check_keyword(d.p, VKeyword_Def)
         /\ ~v_parser_check_keyword(d.p, VKeyword_Import)
         /\ ~v_parser_check_keyword(d.p, VKeyword_From)
           -> R(v_parser_set_error(d.p,
                    "Expected class or function definition after decorator(s)"), NULL)
      [] OTHER ->
         Checked(CASE v_parser_check_keyword(d.p, VKeyword_Class)
                        -> Call("v_parse_class_declaration", <<d.p>>)
                   [] v_parser_check_keyword(d.p, VKeyword_Def)
                        -> Call("v_parse_function_declaration", <<d.p>>)
                   [] \/ v_parser_check_keyword(d.p, VKeyword_Import)
                      \/ v_parser_check_keyword(d.p, VKeyword_From)
                        -> v_parse_import(d.p)
                   [] OTHER -> Call("v_parse_statement", <<d.p>>), LAMBDA decl :
    IF d.decorators.null THEN decl
    ELSE IF decl.n.type \in {VASTNodeType_VASTClass, VASTNodeType_VASTFunction}
    THEN R(decl.p, [decl.n EXCEPT !.decorators = d.decorators])
    ELSE R(v_parser_set_error(decl.p,
               "Decorators can only be applied to functions or classes"), NULL))

\* The declaration loop of v_parse_source: [p, decls, ok].
\* @src src/src/ast.c:996-1017 v_parse_source
SourceLoop(p0, decls) ==
    IF v_parser_is_at_end(p0) THEN [p |-> p0, decls |-> decls, ok |-> TRUE]
    ELSE LET p == Call("SkipNewlines", <<p0>>) IN
    IF v_parser_is_at_end(p) THEN [p |-> p, decls |-> decls, ok |-> TRUE]
    ELSE LET decl == v_parse_declaration(p) IN
    IF decl.ok THEN Call("SourceLoop", <<decl.p, vector_push_back(decls, decl.n)>>)
    ELSE [p |-> decl.p, decls |-> NullVec, ok |-> FALSE]

\* the leading while loop of v_parse_source
\* @src src/src/ast.c:982-986 v_parse_source
SkipLayout(p) ==
    IF \/ v_parser_check(p, VTokenKind_Newline)
       \/ v_parser_check(p, VTokenKind_Indent)
       \/ v_parser_check(p, VTokenKind_Dedent)
    THEN Call("SkipLayout", <<v_parser_advance(p)>>) ELSE p

\* @src src/src/ast.c:980-1020 v_parse_source
v_parse_source(p) ==
    LET l == Call("SourceLoop", <<Call("SkipLayout", <<p>>), vector_new>>) IN
    IF l.ok THEN R(l.p, v_ast_new_source(l.decls)) ELSE R(l.p, NULL)

\* @src src/src/ast.c:2481-2485 v_parse_bitwise_xor
v_parse_bitwise_xor(p) ==
    v_parse_binary_op_left_assoc(p, "v_parse_bitwise_and", {VOperator_BitwiseXor})

\* @src src/src/ast.c:2487-2491 v_parse_bitwise_and
v_parse_bitwise_and(p) ==
    v_parse_binary_op_left_assoc(p, "v_parse_shift", {VOperator_BitwiseAnd})

\* @src src/src/ast.c:2493-2497 v_parse_shift
v_parse_shift(p) ==
    v_parse_binary_op_left_assoc(p, "v_parse_term",
                                 {VOperator_BitwiseLShift, VOperator_BitwiseRShift})

\* an additive level whose operands are unary expressions
v_parse_term_of_unary(p) ==
    Call("v_parse_binary_op_left_assoc", <<p, "v_parse_unary",
                                 {VOperator_Addition, VOperator_Subtraction}>>)

\* @src src/src/ast.c:2499-2503 v_parse_term
v_parse_term(p) ==
    v_parse_binary_op_left_assoc(p, "v_parse_factor",
                                 {VOperator_Addition, VOperator_Subtraction})

\* @src src/src/ast.c:2505-2514 v_parse_factor
v_parse_factor(p) ==
    v_parse_binary_op_left_assoc(p, "v_parse_unary",
                                 {VOperator_Multiplication, VOperator_Division,
                                  VOperator_Modulus, VOperator_FloorDivision})

\* The prefix operator at the cursor: [p, op].
\* @src src/src/ast.c:2518-2535 v_parse_unary
UnaryOperator(p) ==
    IF v_parser_check_operator(p, VOperator_Addition)
    THEN [p |-> v_parser_advance(p), op |-> VOperator_Addition]
    ELSE IF v_parser_check_operator(p, VOperator_Subtraction)
    THEN [p |-> v_parser_advance(p), op |-> VOperator_Subtraction]
    ELSE IF v_parser_check_operator(p, VOperator_BitwiseNot)
    THEN [p |-> v_parser_advance(p), op |-> VOperator_BitwiseNot]
    ELSE IF v_parser_check_keyword(p, VKeyword_Not)
    THEN [p |-> v_parser_advance(p), op |-> VOperator_LogicalNot]
    ELSE [p |-> p, op |-> VOperator_Unknown]

\* @src src/src/ast.c:2996-3008 v_parse_variable
v_parse_variable(p) ==
    LET c == v_parser_consume_kind(p, VTokenKind_Identifier, "Expected identifier") IN
    IF c.tok = NullToken THEN R(c.p, NULL)
    ELSE R(c.p, v_ast_new_symbol(TokenString(c.tok), VType_Unknown))

\* The while loop of the tuple display: [p, elements, ok].
\* @src src/src/ast.c:2675-2704 v_parse_atom
TupleLoop(p, elements) ==
    IF v_parser_check_delimiter(p, VDelimiter_RParen)
    THEN [p |-> p, elements |-> elements, ok |-> TRUE]
    ELSE Bind(v_parse_expression(p), LAMBDA e :
    IF e.n = NULL THEN [p |-> e.p, elements |-> NullVec, ok |-> FALSE]
    ELSE LET v == vector_push_back(elements, e.n)
              m == v_parser_match_delimiter(e.p, VDelimiter_Comma) IN
    IF m.ok THEN Call("TupleLoop", <<m.p, v>>)
    ELSE IF ~v_parser_check_delimiter(e.p, VDelimiter_RParen)
    THEN [p |-> v_parser_set_error(e.p, "Expected \",\" or \")\" in tuple display"),
          elements |-> NullVec, ok |-> FALSE]
    ELSE [p |-> e.p, elements |-> v, ok |-> TRUE])

\* the parenthesized expression or tuple, after the "(" was matched
\* @src src/src/ast.c:2655-2723 v_parse_atom
Parenthesized(p) ==
    LET close == v_parser_match_delimiter(p, VDelimiter_RParen) IN
    IF close.ok THEN R(close.p, v_ast_new_literal_tuple(vector_new))
    ELSE Checked(v_parse_expression(p), LAMBDA e :
    LET m == v_parser_match_delimiter(e.p, VDelimiter_Comma)
             IN Bind(IF m.ok THEN Call("TupleLoop", <<m.p, vector_push_back(vector_new, e.n)>>)
                  ELSE [p |-> e.p, elements |-> NullVec, ok |-> TRUE], LAMBDA t :
    IF ~t.ok THEN R(t.p, NULL)
    ELSE LET node == IF m.ok THEN v_ast_new_literal_tuple(t.elements) ELSE e.n
              c == v_parser_consume_delimiter(t.p, VDelimiter_RParen,
                      "Expected \")\" to close parenthesized expression or tuple") IN
    IF c.tok = NullToken THEN R(c.p, NULL) ELSE R(c.p, node)))

\* The do-while loop of the list display: [p, elements, ok].
\* @src src/src/ast.c:2757-2785 v_parse_literal
ListLoop(p, elements) ==
    IF v_parser_check_delimiter(p, VDelimiter_RBracket)
    THEN [p |-> p, elements |-> elements, ok |-> TRUE]
    ELSE Bind(v_parse_expression(p), LAMBDA e :
    IF e.n = NULL THEN [p |-> e.p, elements |-> NullVec, ok |-> FALSE]
    ELSE LET v == vector_push_back(elements, e.n)
              m == v_parser_match_delimiter(e.p, VDelimiter_Comma) IN
    IF m.ok THEN Call("ListLoop", <<m.p, v>>)
    ELSE IF ~v_parser_check_delimiter(e.p, VDelimiter_RBracket)
    THEN [p |-> v_parser_set_error(e.p, "Expected \",\" or \"]\" in list display"),
          elements |-> NullVec, ok |-> FALSE]
    ELSE [p |-> e.p, elements |-> v, ok |-> TRUE])

\* the list display, after the "[" was matched
\* @src src/src/ast.c:2751-2797 v_parse_literal
ListDisplay(p) ==
    Bind(Call("ListLoop", <<p, vector_new>>), LAMBDA l :
    IF ~l.ok THEN R(l.p, NULL)
    ELSE LET c == v_parser_consume_delimiter(l.p, VDelimiter_RBracket,
                      "Expected \"]\" after list elements") IN
    IF c.tok = NullToken THEN R(c.p, NULL)
    ELSE R(c.p, v_ast_new_literal_list(l.elements)))

\* The while loop over the later key: value pairs: [p, keys, values, ok].
\* @src src/src/ast.c:2837-2875 v_parse_literal
DictLoop(p, keys, values) ==
    LET m == v_parser_match_delimiter(p, VDelimiter_Comma)
         fail(q) == [p |-> q, keys |-> NullVec, values |-> NullVec, ok |-> FALSE] IN
    IF ~m.ok THEN [p |-> p, keys |-> keys, values |-> values, ok |-> TRUE]
    ELSE IF v_parser_check_delimiter(m.p, VDelimiter_RBrace)
    THEN [p |-> m.p, keys |-> keys, values |-> values, ok |-> TRUE]
    ELSE Bind(v_parse_expression(m.p), LAMBDA k :
    IF k.n = NULL THEN fail(k.p)
    ELSE LET c == v_parser_consume_delimiter(k.p, VDelimiter_Colon,
                      "Expected \":\" after dictionary key") IN
    IF c.tok = NullToken THEN fail(c.p)
    ELSE Bind(v_parse_expression(c.p), LAMBDA v :
    IF v.n = NULL THEN fail(v.p)
    ELSE Call("DictLoop", <<v.p, vector_push_back(keys, k.n), vector_push_back(values, v.n)>>)))

\* The while loop over the later set elements: [p, elements, ok].
\* @src src/src/ast.c:2881-2896 v_parse_literal
SetLoop(p, elements) ==
    LET m == v_parser_match_delimiter(p, VDelimiter_Comma) IN
    IF ~m.ok THEN [p |-> p, elements |-> elements, ok |-> TRUE]
    ELSE IF v_parser_check_delimiter(m.p, VDelimiter_RBrace)
    THEN [p |-> m.p, elements |-> elements, ok |-> TRUE]
    ELSE Bind(v_parse_expression(m.p), LAMBDA e :
    IF e.n = NULL THEN [p |-> e.p, elements |-> NullVec, ok |-> FALSE]
    ELSE Call("SetLoop", <<e.p, vector_push_back(elements, e.n)>>))

\* The items between the braces: [p, keys, values, ok], values null for a set.
\* @src src/src/ast.c:2810-2898 v_parse_literal
BraceItems(p) ==
    IF v_parser_check_delimiter(p, VDelimiter_RBrace)
    THEN [p |-> p, keys |-> vector_new, values |-> NullVec, ok |-> TRUE]
    ELSE Bind(v_parse_expression(p), LAMBDA first_item : LET fail(q) == [p |-> q, keys |-> NullVec, values |-> NullVec, ok |-> FALSE] IN
    IF first_item.n = NULL THEN fail(first_item.p)
    ELSE LET m == v_parser_match_delimiter(first_item.p, VDelimiter_Colon) IN
    IF m.ok
    THEN Bind(v_parse_expression(m.p), LAMBDA first_value :
         IF first_value.n = NULL THEN fail(first_value.p)
         ELSE Call("DictLoop", <<first_value.p, vector_push_back(vector_new, first_item.n),
                       vector_push_back(vector_new, first_value.n)>>))
    ELSE Bind(Call("SetLoop", <<first_item.p, vector_push_back(vector_new, first_item.n)>>), LAMBDA sl :
         [p |-> sl.p, keys |-> sl.elements, values |-> NullVec, ok |-> sl.ok]))

\* BraceDisplay without the test for no elements: empty braces give a set
BraceDisplayOfElements(p) ==
    Bind(BraceItems(p), LAMBDA b :
    IF ~b.ok THEN R(b.p, NULL)
    ELSE LET c == v_parser_consume_delimiter(b.p, VDelimiter_RBrace,
                      "Expected \"}\" after dictionary or set elements") IN
    IF c.tok = NullToken THEN R(c.p, NULL)
    ELSE IF ~b.values.null THEN R(c.p, v_ast_new_literal_dict(b.keys, b.values))
    ELSE R(c.p, v_ast_new_literal_set(b.keys)))

\* the dict or set display, after the "{" was matched
\* @src src/src/ast.c:2799-2933 v_parse_literal
BraceDisplay(p) ==
    Bind(BraceItems(p), LAMBDA b :
    IF ~b.ok THEN R(b.p, NULL)
    ELSE LET c == v_parser_consume_delimiter(b.p, VDelimiter_RBrace,
                      "Expected \"}\" after dictionary or set elements") IN
    IF c.tok = NullToken THEN R(c.p, NULL)
    ELSE IF ~b.values.null THEN R(c.p, v_ast_new_literal_dict(b.keys, b.values))
    ELSE IF Len(b.keys.items) = 0 THEN R(c.p, v_ast_new_literal_dict(vector_new, vector_new))
    ELSE R(c.p, v_ast_new_literal_set(b.keys)))

\* the literal token, after the cursor moved past it
\* @src src/src/ast.c:2935-2987 v_parse_literal
TokenLiteral(p, token) ==
    IF token.type = VLiteral_Integer
    THEN LET c == strtoll(token.start) IN
         IF c.endptr # token.start + token.length
         THEN R(v_parser_set_error(p, "Invalid integer literal format"), NULL)
         ELSE R(p, v_ast_new_literal_int(c.val))
    ELSE IF token.type = VLiteral_Float
    THEN LET c == strtod(token.start) IN
         IF c.endptr # token.start + token.length
         THEN R(v_parser_set_error(p, "Invalid float literal format"), NULL)
         ELSE R(p, v_ast_new_literal_float(c.val))
    ELSE IF token.type \in {VLiteral_String, VLiteral_UnicodeString, VLiteral_RawString}
    THEN R(p, v_ast_new_literal_string(TokenString(token)))
    ELSE R(v_parser_set_error(p, "Internal error: Unknown VLiteral token type from lexer"),
           NULL)

\* @src src/src/ast.c:2729-2994 v_parse_literal
v_parse_literal(p) ==
    LET token == v_parser_peek(p) IN
    IF token = NullToken
    THEN R(v_parser_set_error(p, "Unexpected end of input looking for literal"), NULL)
    ELSE IF v_parser_check_keyword(p, VKeyword_True)
    THEN R(v_parser_advance(p), v_ast_new_literal_bool(TRUE))
    ELSE IF v_parser_check_keyword(p, VKeyword_False)
    THEN R(v_parser_advance(p), v_ast_new_literal_bool(FALSE))
    ELSE IF v_parser_check_keyword(p, VKeyword_None)
    THEN R(v_parser_advance(p), v_ast_new_literal_none)
    ELSE IF v_parser_check_delimiter(p, VDelimiter_LBracket)
    THEN ListDisplay(v_parser_advance(p))
    ELSE IF v_parser_check_delimiter(p, VDelimiter_LBrace)
    THEN BraceDisplay(v_parser_advance(p))
    ELSE IF token.kind = VTokenKind_Literal
    THEN TokenLiteral(v_parser_advance(p), token)
    ELSE R(v_parser_set_error(p, "Expected a literal value (number, string, boolean, None, list, dict, set)"),
           NULL)

\* @src src/src/ast.c:2624-2727 v_parse_atom
v_parse_atom(p) ==
    LET token == v_parser_peek(p) IN
    CASE token = NullToken
           -> R(v_parser_set_error(p, "Unexpected end of input looking for atom"), NULL)
      [] \/ token.kind = VTokenKind_Literal
         \/ /\ token.kind = VTokenKind_Keyword
            /\ token.type \in {VKeyword_True, VKeyword_False, VKeyword_None}
           -> Call("v_parse_literal", <<p>>)
      [] token.kind = VTokenKind_Identifier -> v_parse_variable(p)
      [] v_parser_check_delimiter(p, VDelimiter_LBracket) -> Call("v_parse_literal", <<p>>)
      [] v_parser_check_delimiter(p, VDelimiter_LBrace) -> Call("v_parse_literal", <<p>>)
      [] v_parser_check_delimiter(p, VDelimiter_LParen) -> Parenthesized(v_parser_advance(p))
      [] OTHER -> R(p, NULL)

\* @src src/src/ast.c:3203-3223 v_parse_attribute_access
v_parse_attribute_access(p, object_expr) ==
    LET d == v_parser_consume_delimiter(p, VDelimiter_Dot,
                 "Expected \".\" for attribute access") IN
    IF d.tok = NullToken THEN R(d.p, NULL)
    ELSE LET attr_token == v_parser_consume_kind(d.p, VTokenKind_Identifier,
                               "Expected attribute name after \".\"") IN
    IF attr_token.tok = NullToken THEN R(attr_token.p, NULL)
    ELSE R(attr_token.p, v_ast_new_attribute_access(object_expr, TokenString(attr_token.tok)))

\* is_kwarg: an identifier at the cursor whose next token is "="
\* @src src/src/ast.c:3028-3046 v_parse_argument_list
IsKwarg(p) ==
    LET possible_kwarg_name == v_parser_peek(p)
         next_token_idx == p.current + 1
    IN /\ possible_kwarg_name # NullToken
       /\ possible_kwarg_name.kind = VTokenKind_Identifier
       /\ next_token_idx < Len(tokens)
       /\ tokens[next_token_idx + 1].kind = VTokenKind_Operator
       /\ tokens[next_token_idx + 1].type = VOperator_Assign

\* vector_free(args) where the elements are nodes: the vector is released,
\* what its elements hold stays allocated
\* @src src/src/ast.c:3109-3117 v_parse_argument_list
VectorFreed(args) == IF args.null THEN EmptyBag ELSE AllocatedFrom(args.items, 1)

\* ArgumentLoop without the test of parsing_kwargs: a positional argument
\* is taken wherever it stands
ArgumentLoopInAnyOrder(p, args, kwarg_names, kwarg_values, parsing_kwargs) ==
    LET done(q, a, kn, kv) ==
            [p |-> q, args |-> a, kwarg_names |-> kn, kwarg_values |-> kv, ok |-> TRUE]
         fail(q) ==
            [p |-> q, args |-> NullVec, kwarg_names |-> NullVec, kwarg_values |-> NullVec,
             ok |-> FALSE]
         separator(q, a, kn, kv, kw) ==
            LET m == v_parser_match_delimiter(q, VDelimiter_Comma) IN
            IF m.ok THEN Call("ArgumentLoop", <<m.p, a, kn, kv, kw>>)
            ELSE IF ~v_parser_check_delimiter(q, VDelimiter_RParen)
            THEN fail(v_parser_set_error(q, "Expected \",\" or \")\" in argument list"))
            ELSE done(q, a, kn, kv)
    IN
    CASE v_parser_check_delimiter(p, VDelimiter_RParen)
           -> done(p, args, kwarg_names, kwarg_values)
      [] IsKwarg(p)
           -> LET name == TokenString(v_parser_peek(p))
              IN Bind(Call("v_parse_expression", <<v_parser_advance(v_parser_advance(p))>>), LAMBDA value :
              IF value.ok
              THEN separator(value.p, args, vector_push_back(kwarg_names, name),
                             vector_push_back(kwarg_values, value.n), TRUE)
              ELSE fail(value.p))
      [] OTHER
           -> Bind(Call("v_parse_expression", <<p>>), LAMBDA expr :
              IF expr.ok
              THEN separator(expr.p, vector_push_back(args, expr.n), kwarg_names,
                             kwarg_values, parsing_kwargs)
              ELSE fail(Abandon(expr.p, VectorFreed(args))))

\* The do-while loop of v_parse_argument_list.  The result is
\* [p, args, kwarg_names, kwarg_values, ok]; when ok is false the function
\* returned NULL before it stored the keyword vectors.
\* @src src/src/ast.c:3020-3151 v_parse_argument_list
ArgumentLoop(p, args, kwarg_names, kwarg_values, parsing_kwargs) ==
    LET done(q, a, kn, kv) ==
            [p |-> q, args |-> a, kwarg_names |-> kn, kwarg_values |-> kv, ok |-> TRUE]
         fail(q) ==
            [p |-> q, args |-> NullVec, kwarg_names |-> NullVec, kwarg_values |-> NullVec,
             ok |-> FALSE]
         separator(q, a, kn, kv, kw) ==
            LET m == v_parser_match_delimiter(q, VDelimiter_Comma) IN
            IF m.ok THEN Call("ArgumentLoop", <<m.p, a, kn, kv, kw>>)
            ELSE IF ~v_parser_check_delimiter(q, VDelimiter_RParen)
            THEN fail(v_parser_set_error(q, "Expected \",\" or \")\" in argument list"))
            ELSE done(q, a, kn, kv)
    IN
    CASE v_parser_check_delimiter(p, VDelimiter_RParen)
           -> done(p, args, kwarg_names, kwarg_values)
      [] IsKwarg(p)
           -> LET name == TokenString(v_parser_peek(p))
              IN Bind(v_parse_expression(v_parser_advance(v_parser_advance(p))), LAMBDA value :
              IF value.ok
              THEN separator(value.p, args, vector_push_back(kwarg_names, name),
                             vector_push_back(kwarg_values, value.n), TRUE)
              ELSE fail(value.p))
      [] OTHER
           -> IF parsing_kwargs
              THEN fail(v_parser_set_error(p, "Positional argument cannot follow keyword argument"))
              ELSE Bind(v_parse_expression(p), LAMBDA expr :
                   IF expr.ok
                   THEN separator(expr.p, vector_push_back(args, expr.n), kwarg_names,
                                  kwarg_values, parsing_kwargs)
                   ELSE fail(Abandon(expr.p, VectorFreed(args))))

\* @src src/src/ast.c:3010-3158 v_parse_argument_list
v_parse_argument_list(p) == Call("ArgumentLoop", <<p, NullVec, NullVec, NullVec, FALSE>>)

\* @src src/src/ast.c:3160-3201 v_parse_function_call
v_parse_function_call(p, callable_expr) ==
    LET o == v_parser_consume_delimiter(p, VDelimiter_LParen,
                 "Expected \"(\" to start function call") IN
    IF o.tok = NullToken THEN R(o.p, NULL)
    ELSE Bind(v_parse_argument_list(o.p), LAMBDA a : LET c == v_parser_consume_delimiter(a.p, VDelimiter_RParen,
                      "Expected \")\" to end function call") IN
    IF c.tok = NullToken THEN R(c.p, NULL)
    ELSE R(c.p, v_ast_new_fcall(callable_expr, a.args, a.kwarg_names, a.kwarg_values)))

\* a slice production that puts the cursor back where it started when it
\* gives up
SliceAbandonedRewound(p, q) == R([q EXCEPT !.current = p.current], NULL)

\* v_parse_slice gives up for want of a colon: the start expression is
\* destroyed and NULL returned, the cursor stays where the reading left it (q)
\* @src src/src/ast.c:3288-3296 v_parse_slice
SliceAbandoned(p, q) == R(q, NULL)

\* @src src/src/ast.c:3272-3327 v_parse_slice
v_parse_slice(p) ==
    LET has_start == ~v_parser_check_delimiter(p, VDelimiter_Colon)
                     /\ ~v_parser_check_delimiter(p, VDelimiter_RBracket)
        IN Bind(IF has_start THEN v_parse_expression(p) ELSE R(p, NULL), LAMBDA start :
    IF has_start /\ start.n = NULL THEN R(start.p, NULL)
    ELSE LET c1 == v_parser_match_delimiter(start.p, VDelimiter_Colon) IN
    IF ~c1.ok THEN SliceAbandoned(p, c1.p)
    ELSE LET has_stop == ~v_parser_check_delimiter(c1.p, VDelimiter_Colon)
                         /\ ~v_parser_check_delimiter(c1.p, VDelimiter_RBracket)
             IN Bind(IF has_stop THEN v_parse_expression(c1.p) ELSE R(c1.p, NULL), LAMBDA stop :
    IF has_stop /\ stop.n = NULL THEN R(stop.p, NULL)
    ELSE LET c2 == v_parser_match_delimiter(stop.p, VDelimiter_Colon)
              has_step == c2.ok /\ ~v_parser_check_delimiter(c2.p, VDelimiter_RBracket)
             IN Bind(IF has_step THEN v_parse_expression(c2.p) ELSE R(c2.p, NULL), LAMBDA step :
    IF has_step /\ step.n = NULL THEN R(step.p, NULL)
    ELSE R(step.p, v_ast_new_slice(start.n, stop.n, step.n)))))

\* @src src/src/ast.c:3225-3270 v_parse_subscript
v_parse_subscript(p, object_expr) ==
    LET o == v_parser_consume_delimiter(p, VDelimiter_LBracket,
                 "Expected \"[\" to start subscript") IN
    IF o.tok = NullToken THEN R(o.p, NULL)
    ELSE Bind(v_parse_slice(o.p), LAMBDA sl :
    IF sl.n = NULL /\ sl.p.error # NoError THEN R(sl.p, NULL)
    ELSE Bind(IF sl.n = NULL THEN v_parse_expression(sl.p) ELSE sl, LAMBDA slice_node :
    IF slice_node.n = NULL
    THEN R(IF slice_node.p.error = NoError
           THEN v_parser_set_error(slice_node.p,
                                   "Expected index expression or slice in subscript")
           ELSE slice_node.p, NULL)
    ELSE LET c == v_parser_consume_delimiter(slice_node.p, VDelimiter_RBracket,
                      "Expected \"]\" to end subscript") IN
    IF c.tok = NullToken THEN R(c.p, NULL)
    ELSE R(c.p, v_ast_new_subscript(object_expr, slice_node.n))))

\* the while(true) loop of v_parse_primary
\* @src src/src/ast.c:2586-2619 v_parse_primary
PrimaryLoop(p, node) ==
    IF v_parser_check_delimiter(p, VDelimiter_LParen)
    THEN Checked(v_parse_function_call(p, node), LAMBDA r :
         Call("PrimaryLoop", <<r.p, r.n>>))
    ELSE IF v_parser_check_delimiter(p, VDelimiter_Dot)
    THEN Checked(v_parse_attribute_access(p, node), LAMBDA r :
         Call("PrimaryLoop", <<r.p, r.n>>))
    ELSE IF v_parser_check_delimiter(p, VDelimiter_LBracket)
    THEN Checked(v_parse_subscript(p, node), LAMBDA r :
         Call("PrimaryLoop", <<r.p, r.n>>))
    ELSE R(p, node)

\* @src src/src/ast.c:2577-2622 v_parse_primary
v_parse_primary(p) ==
    Checked(v_parse_atom(p), LAMBDA a :
    Call("PrimaryLoop", <<a.p, a.n>>))

\* a power level whose right operand is a primary expression
v_parse_power_of_primary(p) ==
    Checked(Call("v_parse_primary", <<p>>), LAMBDA l :
    LET m == v_parser_match_operator(l.p, VOperator_Exponentiation) IN
    IF ~m.ok THEN l
    ELSE Checked(Call("v_parse_primary", <<m.p>>), LAMBDA r :
    R(r.p, v_ast_new_binop(VOperator_Exponentiation, l.n, r.n))))

\* @src src/src/ast.c:2552-2575 v_parse_power
v_parse_power(p) ==
    Checked(v_parse_primary(p), LAMBDA l :
    LET m == v_parser_match_operator(l.p, VOperator_Exponentiation) IN
    IF ~m.ok THEN l
    ELSE Checked(Call("v_parse_unary", <<m.p>>), LAMBDA r :
    R(r.p, v_ast_new_binop(VOperator_Exponentiation, l.n, r.n))))

\* @src src/src/ast.c:2516-2550 v_parse_unary
v_parse_unary(p) ==
    LET u == UnaryOperator(p) IN
    IF u.op # VOperator_Unknown
    THEN Checked(Call("v_parse_unary", <<u.p>>), LAMBDA o :
         R(o.p, v_ast_new_unop(u.op, o.n)))
    ELSE v_parse_power(p)

\* a call of the production or loop named callee with the arguments args
\* @src src/src/ast.c:935-978 forward declarations
Call(callee, args) ==
    CASE callee = "DecoratorsLoop" -> DecoratorsLoop(args[1], args[2])
      [] callee = "ImportSymbolsLoop" -> ImportSymbolsLoop(args[1], args[2])
      [] callee = "LeftAssocLoop" -> LeftAssocLoop(args[1], args[2], args[3], args[4])
      [] callee = "v_parse_binary_op_left_assoc" -> v_parse_binary_op_left_assoc(args[1], args[2], args[3])
      [] callee = "LogicalAndLoop" -> LogicalAndLoop(args[1], args[2])
      [] callee = "LogicalOrLoop" -> LogicalOrLoop(args[1], args[2])
      [] callee = "v_parse_expression" -> v_parse_expression(args[1])
      [] callee = "BasesLoop" -> BasesLoop(args[1], args[2])
      [] callee = "SkipNewlines" -> SkipNewlines(args[1])
      [] callee = "ParameterLoop" -> ParameterLoop(args[1], args[2], args[3])
      [] callee = "v_parse_function_declaration" -> v_parse_function_declaration(args[1])
      [] callee = "StoreElse" -> StoreElse(args[1], args[2], args[3])
      [] callee = "ElifLoop" -> ElifLoop(args[1], args[2], args[3])
      [] callee = "v_parse_statement" -> v_parse_statement(args[1])
      [] callee = "BodyLoop" -> BodyLoop(args[1], args[2])
      [] callee = "v_parse_body" -> v_parse_body(args[1])
      [] callee = "ClassMembers" -> ClassMembers(args[1], args[2], args[3], args[4], args[5])
      [] callee = "v_parse_class_declaration" -> v_parse_class_declaration(args[1])
      [] callee = "SourceLoop" -> SourceLoop(args[1], args[2])
      [] callee = "SkipLayout" -> SkipLayout(args[1])
      [] callee = "v_parse_source" -> v_parse_source(args[1])
      [] callee = "v_parse_bitwise_xor" -> v_parse_bitwise_xor(args[1])
      [] callee = "v_parse_bitwise_and" -> v_parse_bitwise_and(args[1])
      [] callee = "v_parse_shift" -> v_parse_shift(args[1])
      [] callee = "v_parse_term" -> v_parse_term(args[1])
      [] callee = "v_parse_factor" -> v_parse_factor(args[1])
      [] callee = "TupleLoop" -> TupleLoop(args[1], args[2])
      [] callee = "ListLoop" -> ListLoop(args[1], args[2])
      [] callee = "DictLoop" -> DictLoop(args[1], args[2], args[3])
      [] callee = "SetLoop" -> SetLoop(args[1], args[2])
      [] callee = "v_parse_literal" -> v_parse_literal(args[1])
      [] callee = "ArgumentLoop" -> ArgumentLoop(args[1], args[2], args[3], args[4], args[5])
      [] callee = "PrimaryLoop" -> PrimaryLoop(args[1], args[2])
      [] callee = "v_parse_primary" -> v_parse_primary(args[1])
      [] callee = "v_parse_unary" -> v_parse_unary(args[1])

\* @src src/src/ast.c:14-22 v_ast_new
AstInit ==
    /\ ast = [root |-> NULL, error |-> NoError]
    /\ live = EmptyBag
    /\ symtable = "unset"
    /\ ret = "none"
    /\ parser = [current |-> 0, error |-> NoError, ub |-> FALSE, set_error_calls |-> <<>>,
               garbage |-> NullToken, leaked |-> EmptyBag]

\* a line number that a read through a null VToken* can yield besides 0
\* @src src/src/ast.c:888-888 v_parser_set_error
GarbageLine == 7

\* what a read through a null VToken* can yield: a line number, a token kind
\* and a token type
\* @src src/src/ast.c:880-891 v_parser_set_error
Garbage ==
    {[NullToken EXCEPT !.line = l, !.kind = k, !.type = t] :
        l \in {0, GarbageLine}, k \in {VTokenKind_Literal, VTokenKind_Identifier},
        t \in {VLiteral_String, VLiteral_Integer}}

\* The parses of one token vector, one for each thing in G that a read through
\* a null VToken* can yield.  A parse that made no such read does not depend on
\* what the read yields, and is the only one.
\* @src src/src/ast.c:3483-3506 v_ast_from_tokens
RECURSIVE Parses(_)
Parses(G) ==
    LET g  == CHOOSE x \in G : TRUE
        p0 == [current |-> 0, error |-> NoError, ub |-> FALSE, set_error_calls |-> <<>>,
               garbage |-> g, leaked |-> EmptyBag]
    IN Bind(Call("v_parse_source", <<p0>>), LAMBDA r :
       IF r.p.ub /\ G # {g}
       THEN {<<g, r>>} \cup Parses(G \ {g})
       ELSE {<<g, r>>})

\* One call of v_ast_from_tokens on the token vector of a successful
\* v_lexer_lex.  A call that read through a null pointer either faults or
\* returns with what the read produced.
\* @src src/src/ast.c:3483-3506 v_ast_from_tokens
AstFromTokens ==
    /\ pc = "lexed"
    /\ \E gr \in Parses(Garbage) :
         LET g == gr[1]
             r == gr[2]
         IN /\ parser' = [r.p EXCEPT !.garbage = IF r.p.ub THEN g ELSE NullToken]
            /\ \/ /\ r.p.ub
                  /\ pc' = "crashed"
                  /\ UNCHANGED <<ast, ret, live>>
               \/ /\ pc' = "parsed"
                  /\ IF r.p.error # NoError
                     THEN /\ ast' = [root |-> r.n, error |-> r.p.error]
                          /\ ret' = "false"
                     ELSE /\ ast' = [root |-> r.n, error |-> NoError]
                          /\ ret' = "true"
                  /\ live' = (IF r.p.error # NoError THEN Blocks("string", 1) ELSE EmptyBag)
                              (+) Allocated(r.n) (+) r.p.leaked
    /\ UNCHANGED <<buffer, lexvars, symtable>>

\* main goes on to the symbol table when v_ast_from_tokens returned true and
\* left no error.
\* @src src/tests/test_symtable.c:46-53 main
AstAccepted == pc = "parsed" /\ ret = "true" /\ ast.error = NoError

\* @src src/src/symtable.c:14-24 v_symtable_new
SymtableNew ==
    /\ AstAccepted
    /\ symtable = "unset"
    /\ symtable' = "new"
    /\ UNCHANGED <<buffer, lexvars, pc, ast, ret, parser, live>>

\* v_symtable_collect ends with VENOM_NOT_IMPLEMENTED: a message on stderr and
\* exit(1).  The call does not return.
\* @src src/src/symtable.c:34-43 v_symtable_collect
SymtableCollect ==
    /\ AstAccepted
    /\ symtable = "new"
    /\ pc' = "exited"
    /\ UNCHANGED <<buffer, lexvars, ast, ret, parser, live, symtable>>

\* v_symtable_resolve is VENOM_NOT_IMPLEMENTED alone; a caller that leaves
\* v_symtable_collect out reaches it.
\* @src src/src/symtable.c:45-48 v_symtable_resolve
SymtableResolve ==
    /\ AstAccepted
    /\ symtable = "new"
    /\ pc' = "exited"
    /\ UNCHANGED <<buffer, lexvars, ast, ret, parser, live, symtable>>

\* a caller that leaves both passes out reaches v_symtable_destroy
\* @src src/src/symtable.c:26-32 v_symtable_destroy
SymtableDestroy ==
    /\ AstAccepted
    /\ symtable = "new"
    /\ symtable' = "destroyed"
    /\ UNCHANGED <<buffer, lexvars, pc, ast, ret, parser, live>>

\* The call of v_ast_destroy: after a failed v_ast_from_tokens, or after
\* v_symtable_destroy.  The VAST is not read again.
\* @src src/tests/test_symtable.c:46-62 main
AstDestroy ==
    /\ pc = "parsed"
    /\ ~AstAccepted \/ symtable = "destroyed"
    /\ pc' = "destroyed"
    /\ live' = live (-) v_ast_destroy(ast)
    /\ UNCHANGED <<buffer, lexvars, ast, ret, parser, symtable>>

(***************************************************************************)
(* Source texts.  A buffer is the tuple of its characters.                 *)
(***************************************************************************)
LexAlphabet == {"x", " ", "\n", "#", "1", "\"", ":", "-", "=", "!"}
MaxLen == 3

RECURSIVE Strings(_)
\* all buffers of at most n characters of LexAlphabet
Strings(n) ==
    IF n = 0 THEN {<<>>}
    ELSE LET S == Strings(n - 1) IN S \cup {Append(w, c) : w \in S, c \in LexAlphabet}

MaxLines == 4
MaxIndent == 3

\* k spaces
Spaces(k) == [i \in 1..k |-> " "]

RECURSIVE IndentedLines(_)
\* all buffers of at most n lines, each some spaces, a name and a newline
IndentedLines(n) ==
    IF n = 0 THEN {<<>>}
    ELSE LET S == IndentedLines(n - 1)
         IN S \cup {w \o Spaces(k) \o <<"x", "\n">> : w \in S, k \in 0..MaxIndent}

\* the same without the newline of the last line
Unterminated(S) == {SubSeq(w, 1, Len(w) - 1) : w \in S \ {<<>>}}

\* The binary operators of the precedence ladder: the source text, the
\* VOperator the expression is to carry, and the level on the ladder
\* or < and < comparison < | < ^ < & < shift < additive < multiplicative < **.
BinaryOperators ==
    {[text |-> <<"o","r">>, op |-> VOperator_LogicalOr, level |-> 1],
     [text |-> <<"a","n","d">>, op |-> VOperator_LogicalAnd, level |-> 2],
     [text |-> <<"=","=">>, op |-> VOperator_ComparatorEquals, level |-> 3],
     [text |-> <<"!","=">>, op |-> VOperator_ComparatorNotEquals, level |-> 3],
     [text |-> <<"<">>, op |-> VOperator_ComparatorLessThan, level |-> 3],
     [text |-> <<"<","=">>, op |-> VOperator_ComparatorLessEqualsThan, level |-> 3],
     [text |-> <<">">>, op |-> VOperator_ComparatorGreaterThan, level |-> 3],
     [text |-> <<">","=">>, op |-> VOperator_ComparatorGreaterEqualsThan, level |-> 3],
     [text |-> <<"i","s">>, op |-> VOperator_IdentityIs, level |-> 3],
     [text |-> <<"i","s"," ","n","o","t">>, op |-> VOperator_IdentityIsNot, level |-> 3],
     [text |-> <<"i","n">>, op |-> VOperator_MembershipIn, level |-> 3],
     [text |-> <<"n","o","t"," ","i","n">>, op |-> VOperator_MembershipNotIn, level |-> 3],
     [text |-> <<"|">>, op |-> VOperator_BitwiseOr, level |-> 4],
     [text |-> <<"^">>, op |-> VOperator_BitwiseXor, level |-> 5],
     [text |-> <<"&">>, op |-> VOperator_BitwiseAnd, level |-> 6],
     [text |-> <<"<","<">>, op |-> VOperator_BitwiseLShift, level |-> 7],
     [text |-> <<">",">">>, op |-> VOperator_BitwiseRShift, level |-> 7],
     [text |-> <<"+">>, op |-> VOperator_Addition, level |-> 8],
     [text |-> <<"-">>, op |-> VOperator_Subtraction, level |-> 8],
     [text |-> <<"*">>, op |-> VOperator_Multiplication, level |-> 9],
     [text |-> <<"/">>, op |-> VOperator_Division, level |-> 9],
     [text |-> <<"%">>, op |-> VOperator_Modulus, level |-> 9],
     [text |-> <<"/","/">>, op |-> VOperator_FloorDivision, level |-> 9],
     [text |-> <<"*","*">>, op |-> VOperator_Exponentiation, level |-> 10]}

\* the prefixes written before the operand B
Prefixes == {<<>>, <<"-">>}

\* the atoms A, B, C of the expressions
AtomA == <<"a">>
AtomB == <<"b">>
AtomC == <<"c">>

\* A o1 [prefix]B o2 C
ExprText(o1, prefix, o2) ==
    AtomA \o <<" ">> \o o1.text \o <<" ">> \o prefix \o AtomB \o <<" ">> \o o2.text
          \o <<" ">> \o AtomC

\* A o1 [prefix]B
ShortExprText(o1, prefix) == AtomA \o <<" ">> \o o1.text \o <<" ">> \o prefix \o AtomB

Expressions ==
    {ExprText(o1, u, o2) : o1 \in BinaryOperators, u \in Prefixes, o2 \in BinaryOperators}
    \cup {ShortExprText(o1, u) : o1 \in BinaryOperators, u \in Prefixes}

MaxElifs == 3

\* the decimal digit of i, for names such as c0, c1, b0, b1
DigitChar(i) == <<"0", "1", "2", "3", "4", "5", "6", "7", "8", "9">>[i + 1]

\* the condition and the body statement of clause i
ConditionName(i) == <<"c", DigitChar(i)>>
BodyName(i) == <<"b", DigitChar(i)>>
ElseName == <<"e">>

RECURSIVE ElifLines(_, _, _)
\* the elif clauses i..k, at indentation ind
ElifLines(i, k, ind) ==
    IF i > k THEN <<>>
    ELSE Spaces(ind) \o <<"e","l","i","f"," ">> \o ConditionName(i) \o <<":","\n">>
         \o Spaces(ind + 2) \o BodyName(i) \o <<"\n">> \o ElifLines(i + 1, k, ind)

\* an if statement with k elif clauses and, when has_else, an else clause
IfLines(k, has_else, ind) ==
    Spaces(ind) \o <<"i","f"," ">> \o ConditionName(0) \o <<":","\n">>
    \o Spaces(ind + 2) \o BodyName(0) \o <<"\n">>
    \o ElifLines(1, k, ind)
    \o (IF has_else
        THEN Spaces(ind) \o <<"e","l","s","e",":","\n">> \o Spaces(ind + 2) \o ElseName
             \o <<"\n">>
        ELSE <<>>)

\* the if statement at top level, or as the body of a while loop
IfText(k, has_else, nested) ==
    IF nested THEN <<"w","h","i","l","e"," ","w",":","\n">> \o IfLines(k, has_else, 2)
    ELSE IfLines(k, has_else, 0)

\* the most elif clauses of an if statement that is the body of a while loop
MaxNestedElifs == 0

IfStatements ==
    LET S == {IfText(k, e, FALSE) : k \in 0..MaxElifs, e \in BOOLEAN}
             \cup {IfText(k, e, TRUE) : k \in 0..MaxNestedElifs, e \in BOOLEAN}
    IN S \cup Unterminated(S)

\* TARGET and ITER of the for statements: the text and the node it parses to
ForOperands ==
    {[text |-> <<"x">>, node |-> v_ast_new_symbol(<<"x">>, VType_Unknown)],
     [text |-> <<"y", ".", "z">>,
      node |-> v_ast_new_attribute_access(v_ast_new_symbol(<<"y">>, VType_Unknown),
                                          <<"z">>)],
     [text |-> <<"[", "1", "]">>,
      node |-> v_ast_new_literal_list(
                   vector_push_back(vector_new, v_ast_new_literal_int(1)))]}

\* for TARGET in ITER : BODY, the body being one pass statement
ForText(target, iter) ==
    <<"f","o","r"," ">> \o target.text \o <<" ","i","n"," ">> \o iter.text
    \o <<":","\n"," "," ","p","a","s","s","\n">>

\* while COND : BODY
WhileText(cond) ==
    <<"w","h","i","l","e"," ">> \o cond.text \o <<":","\n"," "," ","p","a","s","s","\n">>

Loops ==
    {ForText(t, i) : t \in ForOperands, i \in ForOperands}
    \cup {WhileText(c) : c \in ForOperands}

\* the contents E of a subscript without a colon: the text and its node
SubscriptContents ==
    {[text |-> <<"0">>, node |-> v_ast_new_literal_int(0)],
     [text |-> <<"i">>, node |-> v_ast_new_symbol(<<"i">>, VType_Unknown)],
     [text |-> <<"i", " ", "+", " ", "1">>,
      node |-> v_ast_new_binop(VOperator_Addition, v_ast_new_symbol(<<"i">>, VType_Unknown),
                               v_ast_new_literal_int(1))],
     [text |-> <<"-", "1">>,
      node |-> v_ast_new_unop(VOperator_Subtraction, v_ast_new_literal_int(1))]}

\* the contents of a slice, and a bracket with two expressions
SliceContents ==
    {<<":">>, <<"0", ":", "1">>, <<":", ":", "2">>, <<"0", ":", "1", ":", "2">>,
     <<"i", " ", "j">>}

\* V [ E ]
SubscriptText(contents) == <<"v", "[">> \o contents \o <<"]">>

Subscripts ==
    {SubscriptText(e.text) : e \in SubscriptContents}
    \cup {SubscriptText(e) : e \in SliceContents}

\* The statements of the class bodies: the lines of the statement, what becomes
\* of it ("function", "attribute", "discarded", or "fails" for a statement that
\* makes the class parse fail), and the type and the name of the node it is
\* stored as.
ClassStatements ==
    {[text |-> <<"x"," ","="," ","1">>, fate |-> "attribute",
      type |-> VASTNodeType_VASTAttribute, name |-> <<"x">>],
     [text |-> <<"y"," ","="," ","2">>, fate |-> "attribute",
      type |-> VASTNodeType_VASTAttribute, name |-> <<"y">>],
     [text |-> <<"d","e","f"," ","f","(",")",":","\n"," "," "," "," ","p","a","s","s">>,
      fate |-> "function", type |-> VASTNodeType_VASTFunction, name |-> <<"f">>],
     [text |-> <<"d","e","f"," ","g","(",")",":","\n"," "," "," "," ","p","a","s","s">>,
      fate |-> "function", type |-> VASTNodeType_VASTFunction, name |-> <<"g">>],
     [text |-> <<"c","l","a","s","s"," ","D",":","\n"," "," "," "," ","p","a","s","s">>,
      fate |-> "attribute", type |-> VASTNodeType_VASTClass, name |-> <<"D">>],
     [text |-> <<"p","a","s","s">>, fate |-> "discarded",
      type |-> VASTNodeType_VASTPass, name |-> <<>>],
     [text |-> <<"\"","d","\"">>, fate |-> "discarded",
      type |-> VASTNodeType_VASTLiteral, name |-> <<>>],
     [text |-> <<"a",".","b"," ","=","1">>, fate |-> "fails",
      type |-> VASTNodeType_VASTAssignment, name |-> <<>>],
     [text |-> <<"1">>, fate |-> "fails",
      type |-> VASTNodeType_VASTLiteral, name |-> <<>>]}

\* the most statements of a class body
MaxClassStatements == 3

\* the class bodies: the sequences of statements
ClassBodies == UNION {[1..n -> ClassStatements] : n \in 1..MaxClassStatements}

RECURSIVE ClassLines(_, _)
\* the statements i.. of the body, each at the indentation of the body
ClassLines(body, i) ==
    IF i > Len(body) THEN <<>>
    ELSE Spaces(2) \o body[i].text \o <<"\n">> \o ClassLines(body, i + 1)

\* class C: BODY, and after it the statement t at top level: the token under
\* the cursor when the class body has been read
ClassText(body) ==
    <<"c","l","a","s","s"," ","C",":","\n">> \o ClassLines(body, 1) \o <<"t","\n">>

Classes == {ClassText(body) : body \in ClassBodies}

\* the most items of a dict or set display
MaxItems == 2

RECURSIVE BraceItemsText(_, _, _)
\* the items i..n between the braces: the elements i of a set, or the pairs
\* i: 9 - i of a dict, with a comma and a space between two items
BraceItemsText(i, n, is_dict) ==
    IF i > n THEN <<>>
    ELSE <<DigitChar(i)>>
         \o (IF is_dict THEN <<":", " ", DigitChar(9 - i)>> ELSE <<>>)
         \o (IF i < n THEN <<",", " ">> ELSE <<>>)
         \o BraceItemsText(i + 1, n, is_dict)

\* { items } with, when trailing, a comma after the last item
BraceText(n, is_dict, trailing) ==
    <<"{">> \o BraceItemsText(1, n, is_dict) \o (IF trailing THEN <<",">> ELSE <<>>)
    \o <<"}">>

BraceDisplays ==
    {BraceText(0, FALSE, FALSE)}
    \cup {BraceText(n, d, t) : n \in 1..MaxItems, d \in BOOLEAN, t \in BOOLEAN}

\* the most arguments of a function call
MaxArguments == 2

\* the argument lists: for each argument, whether it is a keyword argument
ArgumentLists == UNION {[1..n -> BOOLEAN] : n \in 0..MaxArguments}

\* the name of the keyword argument at place i
KeywordName(i) == <<"k", DigitChar(i)>>

RECURSIVE ArgumentsText(_, _)
\* the arguments i.. of the list: the positional argument i is the number i, the
\* keyword argument i is ki=v with v the number 9 - i
ArgumentsText(keywords, i) ==
    IF i > Len(keywords) THEN <<>>
    ELSE (IF keywords[i] THEN KeywordName(i) \o <<"=", DigitChar(9 - i)>>
          ELSE <<DigitChar(i)>>)
         \o (IF i < Len(keywords) THEN <<",", " ">> ELSE <<>>)
         \o ArgumentsText(keywords, i + 1)

\* f(ARGUMENTS)
CallText(keywords) == <<"f", "(">> \o ArgumentsText(keywords, 1) \o <<")">>

FunctionCalls == {CallText(keywords) : keywords \in ArgumentLists}

\* the most parameters of a function definition
MaxParameters == 3

\* the parameter lists: for each parameter, whether it has a default value
ParameterLists == UNION {[1..n -> BOOLEAN] : n \in 0..MaxParameters}

\* the name of the parameter at place i
ParameterName(i) == <<"p", DigitChar(i)>>

RECURSIVE ParametersText(_, _)
\* the parameters i.. of the list: pi, or pi=v with v the number 9 - i
ParametersText(defaults, i) ==
    IF i > Len(defaults) THEN <<>>
    ELSE ParameterName(i)
         \o (IF defaults[i] THEN <<"=", DigitChar(9 - i)>> ELSE <<>>)
         \o (IF i < Len(defaults) THEN <<",", " ">> ELSE <<>>)
         \o ParametersText(defaults, i + 1)

\* def f(PARAMETERS): pass
DefText(defaults) ==
    <<"d","e","f"," ","f","(">> \o ParametersText(defaults, 1)
    \o <<")",":","\n"," "," ","p","a","s","s","\n">>

FunctionDefinitions == {DefText(defaults) : defaults \in ParameterLists}

\* The constructs that the parser does not support, each with a source that
\* uses it; every source ends with a newline, so that no error is reported
\* with the cursor on the EOF token.
UnsupportedSources ==
    {[construct |-> "lambda",
      text |-> <<"x"," ","="," ","l","a","m","b","d","a",":"," ","1","\n">>],
     [construct |-> "decorator arguments",
      text |-> <<"@","d","(","1",")","\n","d","e","f"," ","f","(",")",":","\n"," "," ","p","a","s","s","\n">>],
     [construct |-> "with",
      text |-> <<"w","i","t","h"," ","x",":","\n"," "," ","p","a","s","s","\n">>],
     [construct |-> "try",
      text |-> <<"t","r","y",":","\n"," "," ","p","a","s","s","\n">>],
     [construct |-> "except",
      text |-> <<"e","x","c","e","p","t",":","\n"," "," ","p","a","s","s","\n">>],
     [construct |-> "raise",
      text |-> <<"r","a","i","s","e"," ","x","\n">>],
     [construct |-> "yield",
      text |-> <<"y","i","e","l","d"," ","x","\n">>],
     [construct |-> "del",
      text |-> <<"d","e","l"," ","x","\n">>],
     [construct |-> "global",
      text |-> <<"g","l","o","b","a","l"," ","x","\n">>],
     [construct |-> "nonlocal",
      text |-> <<"n","o","n","l","o","c","a","l"," ","x","\n">>],
     [construct |-> "*args",
      text |-> <<"d","e","f"," ","f","(","*","a",")",":","\n"," "," ","p","a","s","s","\n">>],
     [construct |-> "**kwargs",
      text |-> <<"d","e","f"," ","f","(","*","*","k",")",":","\n"," "," ","p","a","s","s","\n">>],
     [construct |-> "star-import",
      text |-> <<"f","r","o","m"," ","m"," ","i","m","p","o","r","t"," ","*","\n">>],
     [construct |-> "generic type annotation",
      text |-> <<"x",":"," ","L","i","s","t","[","i","n","t","]"," ","="," ","1","\n">>]}

Unsupported == {u.text : u \in UnsupportedSources}

\* the names of the type annotations: the eight that v_string_to_type tests
\* for, and one that it does not
TypeNames ==
    {<<"i","n","t">>,
     <<"f","l","o","a","t">>,
     <<"s","t","r">>,
     <<"b","o","o","l">>,
     <<"L","i","s","t">>,
     <<"T","u","p","l","e">>,
     <<"D","i","c","t">>,
     <<"S","e","t">>,
     <<"F","o","o">>}

\* x: NAME = 1
AnnotatedText(name) == <<"x",":"," ">> \o name \o <<" ","="," ","1","\n">>

Annotated == {AnnotatedText(name) : name \in TypeNames}

\* the number of lines, each indented one space more than the line before,
\* that follow the first line of the deepest staircase
MaxStairs == 128

\* the k-th line of a staircase: k spaces, x, newline
StairLine(k) == [j \in 1..(k + 2) |-> IF j <= k THEN " " ELSE IF j = k + 1 THEN "x" ELSE "\n"]

RECURSIVE StairLines(_, _)
\* the lines from the lo-th to the hi-th
StairLines(lo, hi) ==
    IF lo = hi THEN StairLine(lo)
    ELSE StairLines(lo, (lo + hi) \div 2) \o StairLines((lo + hi) \div 2 + 1, hi)

\* x, then n lines each one space deeper than the line before:
\* "x\n x\n  x\n   x\n" for n = 3
Stairs(n) == StairLines(0, n)

\* the number of characters of Stairs(n)
StairLength(n) == ((n + 1) * (n + 4)) \div 2

StairHeights == {2, MaxStairs - 1, MaxStairs}

Staircases == {Stairs(n) : n \in StairHeights}

\* lines without a statement: empty, spaces, a comment after spaces, and
\* the same with a tab or a carriage return among the whitespace
BlankLines ==
    {<<>>, <<" ">>, <<" ", " ">>, <<" ", " ", " ">>,
     <<"#">>, <<" ", "#", "c">>, <<" ", " ", " ", "#">>,
     <<"\t">>, <<" ", "\t">>, <<" ", " ", " ", "\t", "#">>, <<"\r">>}

\* a statement at the top level or in a body, a line without a statement,
\* and what follows it: nothing, or a statement at one of three depths
BlankLined ==
    {before \o blank \o after :
        before \in {<<"x", "\n">>, <<"x", "\n", " ", " ", "x", "\n">>},
        blank \in BlankLines \cup {Append(b, "\n") : b \in BlankLines},
        after \in {<<>>, <<"x", "\n">>, <<" ", " ", "x", "\n">>,
                   <<" ", " ", " ", "x", "\n">>}}

\* the prefixes of a string literal: none, one character, two characters
StringPrefixes == {<<>>, <<"r">>, <<"f">>, <<"R", "u">>}

\* what stands between the quotes: at most MaxBody characters
MaxBody == 3
RECURSIVE StringBodies(_)
StringBodies(n) ==
    IF n = 0 THEN {<<>>}
    ELSE LET S == StringBodies(n - 1)
         IN S \cup {Append(w, c) : w \in S, c \in {"a", " ", "'", "\""}}

\* prefix, quote, body without that quote, the same quote
StringLiteralText(prefix, q, body) == prefix \o <<q>> \o body \o <<q>>

StringLiterals ==
    {StringLiteralText(t[1], t[2], t[3]) :
        t \in {u \in StringPrefixes \X Quotes \X StringBodies(MaxBody) :
                  \A k \in 1..Len(u[3]) : u[3][k] # u[2]}}

\* the unary prefix operators: the source text and the VOperator that the
\* expression is to carry
UnaryOperators ==
    {[text |-> <<"+">>, op |-> VOperator_Addition],
     [text |-> <<"-">>, op |-> VOperator_Subtraction],
     [text |-> <<"~">>, op |-> VOperator_BitwiseNot],
     [text |-> <<"n", "o", "t">>, op |-> VOperator_LogicalNot]}

\* u x
UnaryText(u) == u.text \o <<" ", "x">>

UnaryExpressions == {UnaryText(u) : u \in UnaryOperators}

\* the symbols of a from-import whose last "as" has no alias after it: the
\* complete symbols that come before it, each with or without an alias
ImportedBefore ==
    {<<>>,
     <<"a", ",", " ">>,
     <<"a", " ", "a", "s", " ", "b", ",", " ">>,
     <<"a", ",", " ", "b", ",", " ">>}

\* from m import SYMBOLS c as
DanglingAliasText(before) ==
    <<"f","r","o","m"," ","m"," ","i","m","p","o","r","t"," ">> \o before
    \o <<"c", " ", "a", "s", "\n">>

\* from m import SYMBOLS 1: the failure that v_parse_import cleans up after
MissingSymbolText(before) ==
    <<"f","r","o","m"," ","m"," ","i","m","p","o","r","t"," ">> \o before \o <<"1", "\n">>

\* the positional arguments that come before the one that is no expression
ArgumentsBefore ==
    {<<>>, <<"1", ",", " ">>, <<"x", ",", " ">>, <<"1", ",", " ", "x", ",", " ">>}

\* f(ARGUMENTS :)
BadArgumentText(before) == <<"f", "(">> \o before \o <<":", ")", "\n">>

\* the sources whose parse fails with work done
FailingSources ==
    {DanglingAliasText(before) : before \in ImportedBefore}
    \cup {MissingSymbolText(before) : before \in ImportedBefore}
    \cup {BadArgumentText(before) : before \in ArgumentsBefore}

\* the contents of the file that the driver reads
\* @src src/tests/test_symtable.c:19-36 main
Buffers ==
    Strings(MaxLen) \cup IndentedLines(MaxLines) \cup Unterminated(IndentedLines(MaxLines))
    \cup Expressions \cup IfStatements \cup Loops \cup Subscripts \cup Classes
    \cup BraceDisplays \cup FunctionCalls \cup Unsupported
    \cup Annotated \cup FunctionDefinitions \cup Staircases
    \cup BlankLined \cup StringLiterals \cup UnaryExpressions \cup FailingSources

(***************************************************************************)
(* The pipeline of tests/test_symtable.c on one buffer: v_lexer_lex, then  *)
(* v_ast_from_tokens on the tokens when the lexer returned true, then the  *)
(* calls on the symbol table, of which a caller may leave the passes out,  *)
(* and v_ast_destroy.                                                      *)
(***************************************************************************)
\* @src src/tests/test_symtable.c:11-69 main
Init == buffer \in Buffers /\ LexInit /\ AstInit

\* @src src/tests/test_symtable.c:11-69 main
Next ==
    \/ LexString
    \/ LexNumber
    \/ LexIdentifier
    \/ LexDelimiter
    \/ LexOperator
    \/ LexNewline
    \/ LexComment
    \/ LexOther
    \/ LexEOF
    \/ AstFromTokens
    \/ SymtableNew
    \/ SymtableCollect
    \/ SymtableResolve
    \/ SymtableDestroy
    \/ AstDestroy

\* @src src/tests/test_symtable.c:11-69 main
Spec == Init /\ [][Next]_vars

(***************************************************************************)
(* v_lexer_lex alone.  The scan loop is one thread that waits for nothing: *)
(* an iteration that can change the state is taken, which is weak fairness *)
(* of the loop.  An iteration that changes nothing stutters for ever.      *)
(***************************************************************************)
\* @src src/src/lexer.c:748-1032 v_lexer_lex
v_lexer_lex ==
    \/ LexString
    \/ LexNumber
    \/ LexIdentifier
    \/ LexDelimiter
    \/ LexOperator
    \/ LexNewline
    \/ LexComment
    \/ LexOther
    \/ LexEOF

\* @src src/src/lexer.c:748-1032 v_lexer_lex
LexSpec == Init /\ [][v_lexer_lex]_vars /\ WF_vars(v_lexer_lex)
(***************************************************************************)
(* Properties of the lexer and of v_ast_from_tokens                        *)
(***************************************************************************)
\* v_lexer_lex has returned true
LexAccepted == pc = "lexed"

\* the number of tokens of the given kind among the first n tokens
KindCount(kind, n) == Cardinality({i \in 1..n : tokens[i].kind = kind})

\* the Indent tokens among the first n tokens that no Dedent token has closed
OpenIndents(n) == KindCount(VTokenKind_Indent, n) - KindCount(VTokenKind_Dedent, n)

\* C1: v_ast_from_tokens ends either with true, a non-null Source root and no
\* error, or with false and an error string; it never returns true with a
\* NULL root.
C1_TwoOutcomes ==
    pc = "parsed" =>
        \/ /\ ret = "true"
           /\ ast.root # NULL
           /\ ast.root.type = VASTNodeType_VASTSource
           /\ ast.error = NoError
        \/ /\ ret = "false"
           /\ ast.error # NoError

\* C1, where the claim fails: a lone ":" is parsed to true with a NULL root
C1_TrueWithNullRoot ==
    /\ pc = "parsed"
    /\ buffer = <<":">>
    /\ ret = "true"
    /\ ast.root = NULL
    /\ ast.error = NoError

\* C2: when v_lexer_lex returns true, the last token is the EOF token and no
\* earlier token has kind EOF.
C2_EofLast ==
    LexAccepted =>
        /\ Len(tokens) >= 1
        /\ tokens[Len(tokens)].kind = VTokenKind_EOF
        /\ \A i \in 1..(Len(tokens) - 1) : tokens[i].kind # VTokenKind_EOF

\* C2: a buffer of several tokens has been lexed
C2_Lexed ==
    /\ pc = "lexed"
    /\ Len(tokens) >= 4
    /\ tokens[Len(tokens)].kind = VTokenKind_EOF

\* C3 as stated: in an accepted input no Dedent comes without its Indent, and
\* at most one Indent, that of a top-level body, is left for EOF to close.
C3_OnlyTopLevelOpen ==
    LexAccepted =>
        /\ \A n \in 0..Len(tokens) : OpenIndents(n) >= 0
        /\ OpenIndents(Len(tokens)) <= 1

\* C3, amended: in an accepted input no Dedent comes without its Indent, and
\* the Indents left for EOF to close are exactly the levels still on the
\* indent stack, at whatever depth.
C3_EofClosesOpenLevels ==
    LexAccepted =>
        /\ \A n \in 0..Len(tokens) : OpenIndents(n) >= 0
        /\ OpenIndents(Len(tokens)) = Len(indent_stack) - 1

\* C3: an accepted input with a Dedent, and two bodies open at EOF
C3_NestedOpenAtEof ==
    /\ pc = "lexed"
    /\ KindCount(VTokenKind_Dedent, Len(tokens)) >= 1
    /\ OpenIndents(Len(tokens)) >= 2

\* the leading spaces of the line that follows the newlines at c
NextLineStart(c) == SkipWhile(c, {"\n"})
NextLineIndent(c) == SkipWhile(NextLineStart(c), {" "}) - NextLineStart(c)
NextLineBlank(c) == At(NextLineStart(c) + NextLineIndent(c)) \in {"\n", NUL, "#"}

\* C4: a non-blank, non-comment line whose leading-space count is below the
\* top of the indent stack and equal to no level of the stack makes
\* v_lexer_lex return false, and no EOF token is appended.
C4_UnindentMismatch ==
    [][(/\ pc = "lexing"
        /\ At(s) = "\n"
        /\ ~NextLineBlank(s)
        /\ NextLineIndent(s) < indent_stack[Len(indent_stack)]
        /\ \A i \in 1..Len(indent_stack) : indent_stack[i] # NextLineIndent(s))
       => /\ pc' = "lex_error"
          /\ \A i \in 1..Len(tokens') : tokens'[i].kind # VTokenKind_EOF]_vars

\* C4, the end of it: after the failure no step follows
C4_Rejected ==
    /\ pc = "lex_error"
    /\ Len(tokens) >= 1
    /\ tokens[Len(tokens)].kind = VTokenKind_Dedent
    /\ \A i \in 1..Len(tokens) : tokens[i].kind # VTokenKind_EOF

(***************************************************************************)
(* Properties of the expression grammar                                    *)
(***************************************************************************)
\* v_ast_from_tokens has returned, or either function has ended otherwise
Ended == pc \in {"parsed", "crashed", "lex_error"}

\* the node of a name
Name(text) == v_ast_new_symbol(text, VType_Unknown)

\* the Source whose only declaration is the given node
SourceOf(node) == v_ast_new_source(vector_push_back(vector_new, node))

\* v_ast_from_tokens has returned true with the given root
ParsedTo(root) ==
    /\ pc = "parsed"
    /\ ret = "true"
    /\ ast.error = NoError
    /\ ast.root = root

\* the operator of the ladder with the given VOperator
Ladder(op) == CHOOSE o \in BinaryOperators : o.op = op

\* C5: for operators op_lo, op_hi of the ladder or < and < comparison < | <
\* ^ < & < shift < additive < multiplicative < ** with op_hi on a strictly
\* higher level, "A op_lo B op_hi C" parses as
\* BinOp(op_lo, A, BinOp(op_hi, B, C)).
C5_Precedence ==
    \A lo \in BinaryOperators, hi \in BinaryOperators :
        (Ended /\ hi.level > lo.level /\ buffer = ExprText(lo, <<>>, hi))
        => ParsedTo(SourceOf(v_ast_new_binop(lo.op, Name(AtomA),
                                 v_ast_new_binop(hi.op, Name(AtomB), Name(AtomC)))))

\* C5: "a or b < c" and "a + b * c" are parsed
C5_Parsed ==
    /\ pc = "parsed"
    /\ ret = "true"
    /\ \/ buffer = ExprText(Ladder(VOperator_LogicalOr), <<>>,
                            Ladder(VOperator_ComparatorLessThan))
       \/ buffer = ExprText(Ladder(VOperator_Addition), <<>>,
                            Ladder(VOperator_Multiplication))
    /\ ast.root.decls.items[1].right.type = VASTNodeType_VASTBinOp

\* C6: "A ** B ** C" parses as BinOp(**, A, BinOp(**, B, C)), and "A ** -B"
\* as BinOp(**, A, UnOp(-, B)): the right operand of ** is a unary expression.
C6_PowerRightAssociative ==
    /\ (Ended /\ buffer = ExprText(Ladder(VOperator_Exponentiation), <<>>,
                                   Ladder(VOperator_Exponentiation)))
       => ParsedTo(SourceOf(v_ast_new_binop(VOperator_Exponentiation, Name(AtomA),
                                v_ast_new_binop(VOperator_Exponentiation, Name(AtomB),
                                                Name(AtomC)))))
    /\ (Ended /\ buffer = ShortExprText(Ladder(VOperator_Exponentiation), <<"-">>))
       => ParsedTo(SourceOf(v_ast_new_binop(VOperator_Exponentiation, Name(AtomA),
                                v_ast_new_unop(VOperator_Subtraction, Name(AtomB)))))

\* C6: "a ** -b" is parsed, with a unary node as the right operand
C6_Parsed ==
    /\ pc = "parsed"
    /\ ret = "true"
    /\ buffer = ShortExprText(Ladder(VOperator_Exponentiation), <<"-">>)
    /\ ast.root.decls.items[1].right.type = VASTNodeType_VASTUnOp

\* the additive and the multiplicative level of the ladder
AdditiveLevel == Ladder(VOperator_Addition).level
MultiplicativeLevel == Ladder(VOperator_Multiplication).level

\* C7: for o1, o2 both additive or both multiplicative, "A o1 B o2 C" parses
\* as BinOp(o2, BinOp(o1, A, B), C).
C7_LeftAssociative ==
    \A o1 \in BinaryOperators, o2 \in BinaryOperators :
        (/\ Ended
         /\ o1.level = o2.level
         /\ o1.level \in {AdditiveLevel, MultiplicativeLevel}
         /\ buffer = ExprText(o1, <<>>, o2))
        => ParsedTo(SourceOf(v_ast_new_binop(o2.op,
                                 v_ast_new_binop(o1.op, Name(AtomA), Name(AtomB)),
                                 Name(AtomC))))

\* C7: "a - b + c" and "a / b % c" are parsed
C7_Parsed ==
    /\ pc = "parsed"
    /\ ret = "true"
    /\ \/ buffer = ExprText(Ladder(VOperator_Subtraction), <<>>, Ladder(VOperator_Addition))
       \/ buffer = ExprText(Ladder(VOperator_Division), <<>>, Ladder(VOperator_Modulus))
    /\ ast.root.decls.items[1].left.type = VASTNodeType_VASTBinOp

(***************************************************************************)
(* Properties of the statements                                            *)
(***************************************************************************)
\* the Body of the single expression statement that is a name
BodyOf(text) == v_ast_new_body(vector_push_back(vector_new, Name(text)))

RECURSIVE IfChain(_, _, _)
\* If(c_i, b_i, If(c_i+1, b_i+1, ... If(c_k, b_k, E))), E the else Body or absent
IfChain(i, k, has_else) ==
    v_ast_new_if(Name(ConditionName(i)), BodyOf(BodyName(i)),
                 IF i < k THEN IfChain(i + 1, k, has_else)
                 ELSE IF has_else THEN BodyOf(ElseName) ELSE NULL)

\* the root that the text IfText(k, has_else, nested) stands for
IfRoot(k, has_else, nested) ==
    IF nested
    THEN SourceOf(v_ast_new_for(TRUE, NULL, Name(<<"w">>),
                      v_ast_new_body(vector_push_back(vector_new,
                                                      IfChain(0, k, has_else)))))
    ELSE SourceOf(IfChain(0, k, has_else))

\* the elements of a vector
Items(vec) == {vec.items[i] : i \in 1..Len(vec.items)}

\* the statements held by a node
Statements(node) ==
    CASE node.type = VASTNodeType_VASTSource -> Items(node.decls)
      [] node.type = VASTNodeType_VASTBody -> Items(node.stmts)
      [] node.type = VASTNodeType_VASTFor -> {node.body}
      [] node.type = VASTNodeType_VASTFunction -> {node.body}
      [] node.type = VASTNodeType_VASTClass ->
            Items(node.attributes) \cup Items(node.functions)
      [] node.type = VASTNodeType_VASTIf ->
            {node.body} \cup (IF node.else_node = NULL THEN {} ELSE {node.else_node})
      [] OTHER -> {}

RECURSIVE IfNodes(_)
\* the If nodes of the tree under a node
IfNodes(node) ==
    (IF node.type = VASTNodeType_VASTIf THEN {node} ELSE {})
    \cup UNION {IfNodes(n) : n \in Statements(node)}

\* C8: an if statement with k elif clauses and an optional else parses to the
\* chain If(c0, b0, If(c1, b1, ... If(ck, bk, E))), E the else Body or absent,
\* the clauses in source order; and the else_node of every If of a parsed AST
\* is absent, an If or a Body.
C8_IfChain ==
    /\ \A k \in 0..MaxElifs, has_else \in BOOLEAN, nested \in BOOLEAN :
          (/\ Ended
           /\ \/ buffer = IfText(k, has_else, nested)
              \/ buffer \in Unterminated({IfText(k, has_else, nested)}))
          => ParsedTo(IfRoot(k, has_else, nested))
    /\ (pc = "parsed" /\ ast.root # NULL)
       => \A node \in IfNodes(ast.root) :
             \/ node.else_node = NULL
             \/ node.else_node.type \in {VASTNodeType_VASTIf, VASTNodeType_VASTBody}

\* C8: an if statement with two elif clauses and an else is parsed, and the
\* chain ends in the else Body
C8_Parsed ==
    /\ pc = "parsed"
    /\ ret = "true"
    /\ buffer = IfText(2, TRUE, FALSE)
    /\ ast.root.decls.items[1].else_node.else_node.else_node.type = VASTNodeType_VASTBody

\* the Body of a single pass statement
PassBody == v_ast_new_body(vector_push_back(vector_new, v_ast_new_pass))

\* C9: "for TARGET in ITER : BODY" is parsed to a For node with
\* is_while = false, target = TARGET, cond = ITER and the parsed body.
C9_ForParses ==
    \A target \in ForOperands, iter \in ForOperands :
        (Ended /\ buffer = ForText(target, iter))
        => ParsedTo(SourceOf(v_ast_new_for(FALSE, target.node, iter.node, PassBody)))

\* C9, what the parser does: TARGET is parsed as an expression, the comparison
\* level takes "in ITER" as its operator and right operand, and the for
\* statement then fails for want of "in"
C9_ForRejected ==
    /\ pc = "parsed"
    /\ buffer = ForText(CHOOSE o \in ForOperands : o.text = <<"x">>,
                        CHOOSE o \in ForOperands : o.text = <<"y", ".", "z">>)
    /\ ret = "false"
    /\ ast.error = ParsingError(1, "Expected \"in\" keyword after for target")

\* C10: a subscript "V [ E ]" whose contents have no colon is parsed to
\* Subscript(value = V, slice = E).
C10_PlainSubscript ==
    \A e \in SubscriptContents :
        (Ended /\ buffer = SubscriptText(e.text))
        => ParsedTo(SourceOf(v_ast_new_subscript(Name(<<"v">>), e.node)))

\* C10, what the parser does: the slice attempt has read E when it fails, the
\* expression is then looked for at "]", and the subscript fails
C10_SubscriptRejected ==
    /\ pc = "parsed"
    /\ buffer = SubscriptText(<<"0">>)
    /\ ret = "false"
    /\ ast.error = ParsingError(1, "Expected index expression or slice in subscript")


(***************************************************************************)
(* Properties of the comparisons, class bodies and displays                *)
(***************************************************************************)
\* the comparison operators ==, !=, <, <=, >, >=, is, is not, in, not in
ComparisonOperators == {o \in BinaryOperators : o.level = 3}

\* the only message of the parser that mentions chained comparisons
ChainedMessage == "Chained comparisons not fully supported yet"

\* v_ast_from_tokens has returned false with the given message for line 1
RejectedWith(message) ==
    /\ pc = "parsed"
    /\ ret = "false"
    /\ ast.error = ParsingError(1, message)

\* C11: for comparison operators c1 and c2 of ==, !=, <, <=, >, >=, is, is not,
\* in, not in, parsing "A c1 B c2 C" fails with the error that mentions
\* "Chained comparisons not fully supported".
C11_ChainedRejected ==
    \A c1 \in ComparisonOperators, c2 \in ComparisonOperators :
        (Ended /\ buffer = ExprText(c1, <<>>, c2)) => RejectedWith(ChainedMessage)

\* C11: "a < b < c" is rejected, but as a statement that does not end at the
\* second "<": v_parse_comparison has returned "a < b" without an error.
C11_RelationalChainUnnoticed ==
    /\ buffer = ExprText(Ladder(VOperator_ComparatorLessThan), <<>>,
                         Ladder(VOperator_ComparatorLessThan))
    /\ RejectedWith("Expected newline or end of block after simple statement")

\* the type and the name of each node of a vector, in order
Members(vector) ==
    [i \in 1..Len(vector.items) |->
        [type |-> vector.items[i].type, name |-> vector.items[i].name]]

RECURSIVE Fated(_, _, _)
\* the type and the name of the statements i.. of the body with the given fate
Fated(body, fate, i) ==
    IF i > Len(body) THEN <<>>
    ELSE (IF body[i].fate = fate
          THEN <<[type |-> body[i].type, name |-> body[i].name]>> ELSE <<>>)
         \o Fated(body, fate, i + 1)

\* The class of the body has been parsed: its functions are the statements that
\* are functions, its attributes the assignments to a name and the nested
\* classes, both in source order, and pass and string statements are in neither;
\* or a statement of another kind has made the parse fail with an error.
Redistributed(body) ==
    IF \E i \in 1..Len(body) : body[i].fate = "fails"
    THEN pc = "parsed" /\ ret = "false" /\ ast.error # NoError
    ELSE /\ pc = "parsed"
         /\ ret = "true"
         /\ ast.root.type = VASTNodeType_VASTSource
         /\ Len(ast.root.decls.items) = 2
         /\ LET class == ast.root.decls.items[1]
            IN /\ class.type = VASTNodeType_VASTClass
               /\ Members(class.functions) = Fated(body, "function", 1)
               /\ Members(class.attributes) = Fated(body, "attribute", 1)

\* C12: for every class body and every order of its statements, each statement
\* ends up in exactly one of functions, attributes (an Attribute built from an
\* assignment to a bare name, or a nested Class), discarded (pass, a bare string
\* literal), or the class parse fails with an error; the order inside functions
\* and inside attributes is the source order.
C12_ClassBodyRedistributed ==
    \A body \in ClassBodies : (Ended /\ buffer = ClassText(body)) => Redistributed(body)

\* the body whose only statement is the nested class
NestedClassOnly ==
    [i \in {1} |-> CHOOSE m \in ClassStatements : m.type = VASTNodeType_VASTClass]

\* C12: a nested class that comes before any assignment has been pushed through
\* the null attributes vector
C12_NestedClassThroughNull ==
    /\ buffer = ClassText(NestedClassOnly)
    /\ Ended
    /\ parser.ub

\* the vector of the nodes item(1), ..., item(n)
VectorOf(n, item(_)) == [null |-> FALSE, items |-> [i \in 1..n |-> item(i)]]

\* the node of the display BraceText(n, is_dict, trailing)
BraceNode(n, is_dict) ==
    IF n = 0 THEN v_ast_new_literal_dict(vector_new, vector_new)
    ELSE IF is_dict
    THEN v_ast_new_literal_dict(VectorOf(n, LAMBDA i : v_ast_new_literal_int(i)),
                                VectorOf(n, LAMBDA i : v_ast_new_literal_int(9 - i)))
    ELSE v_ast_new_literal_set(VectorOf(n, LAMBDA i : v_ast_new_literal_int(i)))

\* C13: "{}" parses to a Dict literal with empty keys and values, "{e1, ...}"
\* to a Set literal of the elements, "{k1: v1, ...}" to a Dict literal whose
\* keys and values are the keys and the values in order, of equal length; a
\* comma after the last item is accepted in both forms.
C13_DictOrSet ==
    \A n \in 0..MaxItems, is_dict \in BOOLEAN, trailing \in BOOLEAN :
        (Ended /\ (n = 0 => ~trailing) /\ buffer = BraceText(n, is_dict, trailing))
        => /\ ParsedTo(SourceOf(BraceNode(n, is_dict)))
           /\ is_dict => Len(ast.root.decls.items[1].keys.items)
                         = Len(ast.root.decls.items[1].values.items)

\* C13: "{}" is parsed to a dict, "{1, 2,}" to a set and "{1: 8, 2: 7,}" to a
\* dict of two keys
C13_Parsed ==
    /\ pc = "parsed"
    /\ ret = "true"
    /\ \/ /\ buffer = BraceText(0, FALSE, FALSE)
          /\ ast.root.decls.items[1].lit_type = VType_Dict
       \/ /\ buffer = BraceText(MaxItems, FALSE, TRUE)
          /\ ast.root.decls.items[1].lit_type = VType_Set
       \/ /\ buffer = BraceText(MaxItems, TRUE, TRUE)
          /\ ast.root.decls.items[1].lit_type = VType_Dict
          /\ Len(ast.root.decls.items[1].keys.items) = MaxItems

(***************************************************************************)
(* Properties of the errors                                                *)
(***************************************************************************)
\* C14: once the error latch is set no later call of v_parser_set_error
\* changes it: the error delivered in ast->error is the one of the first call
\* of v_parser_set_error of the parse, and none is delivered when there was no
\* call.
C14_FirstErrorWins ==
    pc = "parsed"
    => IF parser.set_error_calls = <<>>
       THEN ast.error = NoError /\ ret = "true"
       ELSE /\ ret = "false"
            /\ ast.error # NoError
            /\ ast.error.message = parser.set_error_calls[1]
            /\ parser.error = ast.error

\* C14: a parse in which v_parser_set_error was called twice, with two
\* different messages, has delivered the first
C14_SecondErrorDropped ==
    /\ pc = "parsed"
    /\ Len(parser.set_error_calls) >= 2
    /\ parser.set_error_calls[2] # parser.set_error_calls[1]
    /\ ast.error.message = parser.set_error_calls[1]

(***************************************************************************)
(* Properties of the argument and parameter lists                          *)
(***************************************************************************)
RECURSIVE ArgumentsOf(_, _, _, _)
\* item(i) for the arguments i.. of the list that are keyword arguments, or
\* that are not
ArgumentsOf(keywords, keyword, item(_), i) ==
    IF i > Len(keywords) THEN <<>>
    ELSE (IF keywords[i] = keyword THEN <<item(i)>> ELSE <<>>)
         \o ArgumentsOf(keywords, keyword, item, i + 1)

\* the vector of the nodes, which is not created when there is none
VectorOrNull(nodes) == IF nodes = <<>> THEN NullVec ELSE [null |-> FALSE, items |-> nodes]

\* the call of f with the positional and the keyword arguments of the list
CallNode(keywords) ==
    v_ast_new_fcall(Name(<<"f">>),
        VectorOrNull(ArgumentsOf(keywords, FALSE, LAMBDA i : v_ast_new_literal_int(i), 1)),
        VectorOrNull(ArgumentsOf(keywords, TRUE, LAMBDA i : KeywordName(i), 1)),
        VectorOrNull(ArgumentsOf(keywords, TRUE, LAMBDA i : v_ast_new_literal_int(9 - i), 1)))

\* a positional argument stands after a keyword argument
PositionalAfterKeyword(keywords) ==
    \E i \in 1..Len(keywords), j \in 1..Len(keywords) :
        i < j /\ keywords[i] /\ ~keywords[j]

\* C18: a call with a positional argument after a keyword argument makes the
\* parse fail; every other call parses to the FCall whose args are the
\* positional arguments and whose kwargs are the keyword arguments, in source
\* order; and in every FCall produced kwargs.names and kwargs.values have the
\* same length.
C18_PositionalBeforeKeyword ==
    /\ \A keywords \in ArgumentLists :
           (Ended /\ buffer = CallText(keywords))
           => IF PositionalAfterKeyword(keywords)
              THEN RejectedWith("Positional argument cannot follow keyword argument")
              ELSE ParsedTo(SourceOf(CallNode(keywords)))
    /\ (pc = "parsed" /\ ret = "true" /\ ast.root # NULL)
       => \A i \in 1..Len(ast.root.decls.items) :
              LET decl == ast.root.decls.items[i]
              IN decl.type = VASTNodeType_VASTFCall
                 => Len(decl.kwargs.names.items) = Len(decl.kwargs.values.items)

\* C18: "f(k1=8, 2)" is rejected, and "f(1, k2=7)" is parsed to a call
\* of one positional and one keyword argument
C18_Parsed ==
    /\ pc = "parsed"
    /\ \/ /\ buffer = CallText(<<TRUE, FALSE>>)
          /\ ret = "false"
       \/ /\ buffer = CallText(<<FALSE, TRUE>>)
          /\ ret = "true"
          /\ Len(ast.root.decls.items[1].args.items) = 1
          /\ Len(ast.root.decls.items[1].kwargs.names.items) = 1

\* the line of the token under the cursor, the EOF token when the cursor is at
\* the end of the token vector
CursorLine == tokens[parser.current + 1].line

\* C15: every parse error is delivered as "Parsing error at line N: <message>",
\* N the line of the token under the cursor and <message> the one the
\* production reported, wherever the cursor stands when a production reports
\* the error, on the EOF token included.
C15_ErrorAtCursorLine ==
    (Ended /\ parser.set_error_calls # <<>>)
    => /\ pc = "parsed"
       /\ ret = "false"
       /\ ast.error = ParsingError(CursorLine, parser.set_error_calls[1])

\* C15: "x =" ends where the right-hand side of the assignment should begin:
\* the error is reported with the cursor on the EOF token, whose line is 1, and
\* the call faults in the read of the line
C15_ErrorOnEof ==
    /\ pc = "crashed"
    /\ buffer = <<"x", " ", "=">>
    /\ tokens[parser.current + 1].kind = VTokenKind_EOF
    /\ CursorLine = 1
    /\ parser.set_error_calls = <<"Unexpected end of input looking for atom">>
    /\ parser.ub

\* v_ast_from_tokens returned false and ast->error is a diagnostic
Rejected == pc = "parsed" /\ ret = "false" /\ ast.error # NoError

\* C16: for a source that uses lambda, decorator arguments, with, try, except,
\* raise, yield, del, global, nonlocal, *args or **kwargs, a star-import or a
\* generic type annotation, v_ast_from_tokens returns false and ast->error is
\* a diagnostic.
C16_UnsupportedRejected ==
    \A u \in UnsupportedSources : (Ended /\ buffer = u.text) => Rejected

\* C16: "raise x" is accepted: v_ast_from_tokens returns true, with no error
\* and no root
C16_RaiseAccepted ==
    /\ pc = "parsed"
    /\ \E u \in UnsupportedSources : u.construct = "raise" /\ buffer = u.text
    /\ ret = "true"
    /\ ast.error = NoError
    /\ ast.root = NULL

\* the type that the annotation named name stands for
TypeNamed(name) ==
    CASE name = <<"i","n","t">> -> VType_Int
      [] name = <<"f","l","o","a","t">> -> VType_Float
      [] name = <<"s","t","r">> -> VType_String
      [] name = <<"b","o","o","l">> -> VType_Bool
      [] name = <<"L","i","s","t">> -> VType_List
      [] name = <<"T","u","p","l","e">> -> VType_Tuple
      [] name = <<"D","i","c","t">> -> VType_Dict
      [] name = <<"S","e","t">> -> VType_Set
      [] OTHER -> VType_Object

\* C17: an annotation named int, float, str, bool, List, Tuple, Dict or Set
\* resolves to Int, Float, String, Bool, List, Tuple, Dict or Set, and an
\* annotation of any other name resolves to Object: "x: NAME = 1" parses to
\* an assignment of that type.
C17_AnnotationMapping ==
    \A name \in TypeNames :
        (Ended /\ buffer = AnnotatedText(name))
        => /\ pc = "parsed"
           /\ ret = "true"
           /\ ast.root.decls.items[1].type = VASTNodeType_VASTAssignment
           /\ ast.root.decls.items[1].vtype = TypeNamed(name)

\* C17: "x: float = 1" parses to an assignment of type Int
C17_FloatAsInt ==
    /\ pc = "parsed"
    /\ buffer = AnnotatedText(<<"f","l","o","a","t">>)
    /\ ret = "true"
    /\ ast.root.decls.items[1].type = VASTNodeType_VASTAssignment
    /\ ast.root.decls.items[1].vtype = VType_Int

\* the definition of f with the parameters of the list and the body pass
FunctionNode(defaults) ==
    v_ast_new_function(<<"f">>,
        VectorOf(Len(defaults), LAMBDA i :
            v_ast_new_argument(ParameterName(i), VType_Unknown,
                IF defaults[i] THEN v_ast_new_literal_int(9 - i) ELSE NULL)),
        VType_Unknown, PassBody)

\* a parameter without a default value stands after one with a default value
NonDefaultAfterDefault(defaults) ==
    \E i \in 1..Len(defaults), j \in 1..Len(defaults) :
        i < j /\ defaults[i] /\ ~defaults[j]

\* C19: a function definition with a parameter without a default value after
\* a parameter with one makes the parse fail with an error; every other
\* definition parses to the function of these parameters; and in every
\* parameter list produced no parameter without a default value comes after
\* one with a default value.
C19_DefaultsLast ==
    /\ \A defaults \in ParameterLists :
           (Ended /\ buffer = DefText(defaults))
           => IF NonDefaultAfterDefault(defaults)
              THEN RejectedWith("Non-default argument follows default argument")
              ELSE ParsedTo(SourceOf(FunctionNode(defaults)))
    /\ (pc = "parsed" /\ ret = "true" /\ ast.root # NULL)
       => \A d \in 1..Len(ast.root.decls.items) :
              LET decl == ast.root.decls.items[d]
              IN decl.type = VASTNodeType_VASTFunction
                 => \A i \in 1..Len(decl.params.items), j \in 1..Len(decl.params.items) :
                        (i < j /\ decl.params.items[i].default_value # NULL)
                        => decl.params.items[j].default_value # NULL

\* C19: "def f(p1=8, p2): pass" is rejected, and "def f(p1, p2=7): pass" is
\* parsed to a function of two parameters, the second with a default value
C19_Parsed ==
    /\ pc = "parsed"
    /\ \/ /\ buffer = DefText(<<TRUE, FALSE>>)
          /\ ret = "false"
       \/ /\ buffer = DefText(<<FALSE, TRUE>>)
          /\ ret = "true"
          /\ Len(ast.root.decls.items[1].params.items) = 2
          /\ ast.root.decls.items[1].params.items[1].default_value = NULL
          /\ ast.root.decls.items[1].params.items[2].default_value # NULL

\* C20: destroying the AST root releases all descendant resources: when
\* v_ast_destroy has returned after a successful parse, no node, string or
\* vector that the parse allocated is still allocated, whatever the shape of
\* the AST.
C20_DestroyReleasesAll ==
    (pc = "destroyed" /\ ret = "true") => live = EmptyBag

\* the definition of a function whose body is pass has been parsed and
\* destroyed, and one node, the Pass of the body, is still allocated
C20_PassLeft ==
    /\ pc = "destroyed"
    /\ buffer = DefText(<<>>)
    /\ ret = "true"
    /\ ast.root = SourceOf(FunctionNode(<<>>))
    /\ Allocated(ast.root) = Blocks("node", 4) (+) Blocks("string", 1) (+) Blocks("vector", 3)
    /\ live = Blocks("node", 1)

\* C22: the indent stack starts as the single entry 0 and never holds more
\* than MAX_INDENT_DEPTH entries; the test before a push refuses the stack
\* of MAX_INDENT_DEPTH entries and lets the stack of one entry less grow; a
\* staircase of n lines, each deeper than the line before, is refused by
\* v_lexer_lex exactly when its n-th line would push an entry past that
\* capacity, and the refused line gets no Indent token: the Indent tokens
\* are those of the lines that fitted.
C22_IndentCapacity ==
    /\ Len(indent_stack) \in 1..MAX_INDENT_DEPTH
    /\ indent_stack[1] = 0
    /\ tokens = <<>> => indent_stack = <<0>>
    /\ \A depth \in {MAX_INDENT_DEPTH - 1, MAX_INDENT_DEPTH} :
           IndentOverflow([i \in 1..depth |-> i - 1]) <=> depth = MAX_INDENT_DEPTH
    /\ \A n \in StairHeights :
           (pc # "lexing" /\ Len(buffer) = StairLength(n) /\ buffer = Stairs(n))
           => /\ pc = "lex_error" <=> n >= MAX_INDENT_DEPTH
              /\ KindCount(VTokenKind_Indent, Len(tokens))
                     = (IF n >= MAX_INDENT_DEPTH THEN MAX_INDENT_DEPTH - 1 ELSE n)
              /\ pc = "lex_error" => tokens[Len(tokens)].kind = VTokenKind_Newline

\* the staircase of MAX_INDENT_DEPTH lines has been refused with the stack
\* full, at its last line, and the staircase one line shorter is accepted
C22_Overflow ==
    /\ pc = "lex_error"
    /\ Len(buffer) = StairLength(MAX_INDENT_DEPTH)
    /\ buffer = Stairs(MAX_INDENT_DEPTH)
    /\ Len(indent_stack) = MAX_INDENT_DEPTH
    /\ indent_stack[MAX_INDENT_DEPTH] = MAX_INDENT_DEPTH - 1
    /\ position = MAX_INDENT_DEPTH
    /\ At(s) = "x" /\ At(s + 2) = NUL

\* the characters that leave a line blank
Whitespace == {" ", "\t", "\r"}

\* the line that follows the newlines at c holds only characters of W,
\* or only such characters and then a comment
BlankOf(c, W) == At(SkipWhile(NextLineStart(c), W)) \in {"\n", NUL, "#"}

\* the step that reads the newlines at s and the beginning of the line
\* after them leaves the indent stack as it is and writes Newline tokens only
StackKept ==
    /\ indent_stack' = indent_stack
    /\ \A i \in (Len(tokens) + 1)..Len(tokens') : tokens'[i].kind = VTokenKind_Newline

\* C23: blank lines and comment-only lines never alter the indent stack: a
\* line that is empty, holds only whitespace, or holds only whitespace and
\* then a # comment leaves the stack unchanged and gets no Indent or Dedent
\* token, whatever the number of its leading spaces.
C23_BlankLinesKeepStack ==
    [][(pc = "lexing" /\ At(s) = "\n" /\ BlankOf(s, Whitespace)) => StackKept]_vars

\* C23 as it holds: the same of a line that is empty, holds only spaces, or
\* holds only spaces and then a # comment.
C23_SpaceLinesKeepStack ==
    [][(pc = "lexing" /\ At(s) = "\n" /\ BlankOf(s, {" "})) => StackKept]_vars

\* in a body at depth 2, a line of one space has been read: the stack is as
\* it was and the last token is the Newline before the line
C23_BlankLineRead ==
    /\ pc = "lexing"
    /\ indent_stack = <<0, 2>>
    /\ s > 3 /\ At(s - 2) = "\n" /\ At(s - 1) = " " /\ At(s) = "\n"
    /\ position = 1
    /\ tokens[Len(tokens)].kind = VTokenKind_Newline

\* the words that both the keyword table and the operator table hold, with
\* their keyword codes
OperatorWords ==
    (<<"a", "n", "d">> :> VKeyword_And) @@ (<<"o", "r">> :> VKeyword_Or) @@
    (<<"n", "o", "t">> :> VKeyword_Not) @@ (<<"i", "s">> :> VKeyword_Is) @@
    (<<"i", "n">> :> VKeyword_In)

\* C24: the words and, or, not, is, in are always written by the lexer as
\* Keyword tokens, never as Operator tokens, and no token carries the
\* operator code of `is not` (IdentityIsNot) or of `not in` (MembershipNotIn).
C24_WordsAreKeywords ==
    \A i \in 1..Len(tokens) :
        /\ Lexeme(tokens[i].start, tokens[i].length) \in DOMAIN OperatorWords
           => /\ tokens[i].kind = VTokenKind_Keyword
              /\ tokens[i].type = OperatorWords[Lexeme(tokens[i].start, tokens[i].length)]
        /\ tokens[i].kind = VTokenKind_Operator
           => tokens[i].type \notin {VOperator_IdentityIsNot, VOperator_MembershipNotIn,
                                     VOperator_LogicalAnd, VOperator_LogicalOr,
                                     VOperator_LogicalNot, VOperator_IdentityIs,
                                     VOperator_MembershipIn}

\* `a is not b` has been lexed: is and not are two Keyword tokens
C24_IsNotLexed ==
    /\ pc = "lexed"
    /\ buffer = <<"a", " ", "i", "s", " ", "n", "o", "t", " ", "b">>
    /\ Len(tokens) = 5
    /\ tokens[2].kind = VTokenKind_Keyword /\ tokens[2].type = VKeyword_Is
    /\ tokens[3].kind = VTokenKind_Keyword /\ tokens[3].type = VKeyword_Not

\* C25: a string literal opened with the quote q, after a prefix of at most
\* two characters, gives exactly one Literal token, whose lexeme runs to the
\* next occurrence of q; the other quote character inside the literal does
\* not end it.
C25_SameQuoteCloses ==
    \A prefix \in StringPrefixes, q \in Quotes, body \in StringBodies(MaxBody) :
        (/\ pc \in {"lexed", "parsed", "crashed", "destroyed"}
         /\ Len(buffer) = Len(prefix) + Len(body) + 2
         /\ \A k \in 1..Len(body) : body[k] # q
         /\ buffer = StringLiteralText(prefix, q, body))
        => /\ Len(tokens) = 2
           /\ tokens[1].kind = VTokenKind_Literal
           /\ tokens[1].type = VLiteral_String
           /\ Lexeme(tokens[1].start, tokens[1].length) = body
           /\ tokens[2].kind = VTokenKind_EOF

\* the literal "a'a" in double quotes has been lexed: the first Literal token
\* ends at the single quote, and a and the closing quote give two more tokens
C25_OtherQuoteCloses ==
    /\ pc = "lexed"
    /\ buffer = <<"\"", "a", "'", "a", "\"">>
    /\ Len(tokens) = 4
    /\ tokens[1].kind = VTokenKind_Literal
    /\ Lexeme(tokens[1].start, tokens[1].length) = <<"a">>
    /\ tokens[2].kind = VTokenKind_Identifier
    /\ Lexeme(tokens[2].start, tokens[2].length) = <<"a">>
    /\ tokens[3].kind = VTokenKind_Literal /\ tokens[3].length = 0
    /\ tokens[4].kind = VTokenKind_EOF

\* C26: for each unary prefix operator u of +, -, ~, not, lexing and parsing
\* the source `u x` gives UnOp(op, Symbol x) with op the operator code of u:
\* Addition, Subtraction, BitwiseNot, LogicalNot.
C26_UnaryPrefix ==
    \A u \in UnaryOperators :
        (Ended /\ buffer = UnaryText(u))
        => ParsedTo(SourceOf(v_ast_new_unop(u.op, Name(<<"x">>))))

\* `~ x` has been lexed without a token for ~ and parsed to the name x alone
C26_TildeDropped ==
    /\ pc = "parsed"
    /\ buffer = <<"~", " ", "x">>
    /\ Len(tokens) = 2
    /\ tokens[1].kind = VTokenKind_Identifier
    /\ tokens[2].kind = VTokenKind_EOF
    /\ ParsedTo(SourceOf(Name(<<"x">>)))

\* C27: for a source that lexes and parses, the calls v_symtable_new,
\* v_symtable_collect, v_symtable_resolve, v_symtable_destroy, v_ast_destroy
\* run to completion: control comes back to main after each call, none ends
\* the process.
C27_CallsReturn ==
    pc # "exited"

\* "x" has been lexed and parsed, the symbol table constructed, and
\* v_symtable_collect has ended the process: the table and the AST are as
\* they were, never destroyed
C27_CollectExits ==
    /\ pc = "exited"
    /\ buffer = <<"x">>
    /\ ret = "true"
    /\ ast.root = SourceOf(Name(<<"x">>))
    /\ symtable = "new"
    /\ live = Allocated(ast.root)

\* the read position moved by at least one byte, or v_lexer_lex returned
Advanced == s' > s \/ pc' # "lexing"

\* C28: v_lexer_lex terminates on every NUL-terminated buffer: each iteration
\* of the scan loop, in every branch, advances the read position by at least
\* one byte or returns, and the loop is left in the end.
C28_LexTerminates ==
    /\ [][pc = "lexing" => Advanced]_vars
    /\ <>(pc # "lexing")

\* "-:" has been lexed: the delimiter branch read two bytes, found no
\* delimiter "-:", stepped back and gave the bytes to the operator branch
C28_FallbackLexed ==
    /\ pc = "lexed"
    /\ buffer = <<"-", ":">>
    /\ s = 3
    /\ Len(tokens) = 3
    /\ tokens[1].kind = VTokenKind_Operator /\ tokens[1].length = 1
    /\ tokens[2].kind = VTokenKind_Delimiter /\ tokens[2].start = 2

\* C29: at every point of lexing the Indent tokens written minus the Dedent
\* tokens written are the depth of the indent stack minus one; the stack
\* holds at least one entry, its bottom entry is 0, and its entries increase
\* strictly from bottom to top.
C29_IndentBalance ==
    /\ Len(indent_stack) >= 1
    /\ indent_stack[1] = 0
    /\ \A i \in 1..(Len(indent_stack) - 1) : indent_stack[i] < indent_stack[i + 1]
    /\ OpenIndents(Len(tokens)) = Len(indent_stack) - 1

\* the lexer is at the last line of "x\n x\n  x\n x": two levels were opened,
\* the last newline closed the inner one, and the stack is back to <<0, 1>>
C29_InnerLevelClosed ==
    /\ pc = "lexing"
    /\ buffer = <<"x", "\n", " ", "x", "\n", " ", " ", "x", "\n", " ", "x">>
    /\ s = 11
    /\ indent_stack = <<0, 1>>
    /\ KindCount(VTokenKind_Indent, Len(tokens)) = 2
    /\ KindCount(VTokenKind_Dedent, Len(tokens)) = 1
    /\ tokens[Len(tokens)].kind = VTokenKind_Dedent

\* the index of the EOF token in the vector, counted from 0 as the cursor is
EofIndex == Len(tokens) - 1

\* v_lexer_lex has returned true: the vector ends with the EOF token
EofWritten == tokens # <<>> /\ tokens[Len(tokens)].kind = VTokenKind_EOF

\* C30: during a parse the cursor parser->current never decreases and never
\* moves past the index of the EOF token; a production that returns NULL
\* without an error leaves the tokens it read consumed: after "v[E]", where
\* v_parse_slice has read E and given up, the cursor stays at "]".
C30_CursorForward ==
    /\ [][parser'.current >= parser.current]_vars
    /\ [](IF EofWritten THEN parser.current \in 0..EofIndex ELSE parser.current = 0)
    /\ [](\A e \in SubscriptContents :
            (pc = "parsed" /\ buffer = SubscriptText(e.text))
            => /\ parser.current = EofIndex - 1
               /\ tokens[parser.current + 1].kind = VTokenKind_Delimiter
               /\ tokens[parser.current + 1].type = VDelimiter_RBracket)

\* "v[-1]" has been parsed: v_parse_slice read "-1", found no colon and
\* returned NULL; the cursor is at "]", the fifth of the six tokens
C30_SliceLeftConsumed ==
    /\ pc = "parsed"
    /\ buffer = SubscriptText(<<"-", "1">>)
    /\ Len(tokens) = 6
    /\ parser.current = 4
    /\ ret = "false"

\* C21: when v_ast_from_tokens fails, every node, string and staging vector
\* that the productions allocated before the failure has been released by
\* the time it returns; only the error string stays allocated.
C21_FailureReleasesAll ==
    (pc = "parsed" /\ ret = "false") => live = Blocks("string", 1)

\* "from m import a as b, c as" has been parsed: the alias of c is missing
\* and v_parse_import has returned NULL with the vector of symbols and the
\* strings a and b in it still allocated, beside the error string
C21_SymbolsAbandoned ==
    /\ pc = "parsed"
    /\ buffer = DanglingAliasText(<<"a", " ", "a", "s", " ", "b", ",", " ">>)
    /\ ret = "false"
    /\ ast.error = ParsingError(1, "Expected symbol alias")
    /\ parser.leaked = Blocks("vector", 1) (+) Blocks("string", 2)
    /\ live = Blocks("string", 1) (+) parser.leaked
====
